---- MODULE Spec2Model ----
(***************************************************************************)
(* goose-flow orchestration engine: TaskOrchestrator with its TaskStack,   *)
(* SafetyManager, ProgressTracker and the worker (goose) processes bound   *)
(* to the tasks.                                                           *)
(*                                                                         *)
(* Task ids are the values of taskCounter (1, 2, ...); the ms timestamp in *)
(* the id string is dropped.  0 stands for an undefined parentId.  The     *)
(* TaskStack entries reference the Task objects of the task map, so the    *)
(* stack is a sequence of ids and TaskStack.updateTask writes through to   *)
(* the task map.  Each controller operation is one step: its awaits only   *)
(* wait for the progress file and the task directory.  Worker events       *)
(* (stdout directive, exit, error) are steps of their own; a chunk with    *)
(* several directives is the sequence of its directives' steps.            *)
(*                                                                         *)
(* Of the lines written to a worker's input only the "[Subtask completed]" *)
(* line of resumeParentTask is recorded (stdin); GooseProcess.status is a  *)
(* label no code reads and is left out, as are timestamps and events.      *)
(*                                                                         *)
(* Spec is the session driven by the worker events and the calls that      *)
(* create, complete and stop tasks.  LimitSpec is a session whose limits   *)
(* bind before the total does, ApiSpec a short session in which pauseTask  *)
(* and waitForCompletion are called as well.  The TaskLimits are those of  *)
(* the constructor; SafetyManager.updateLimits and reset are not called.   *)
(* InstructionSpec is a short session in which the timer of the initial    *)
(* instruction fires.  StackSpec, ParseSpec and TrackerSpec drive one      *)
(* component on its own: a TaskStack with its events and return values, an *)
(* OrchestrationHandler on chunks of text, a ProgressTracker.  UpdateSpec  *)
(* is a TaskStack whose tasks change status.  ExitSpec is a session that   *)
(* ends by the exits of its workers, with fair scheduling of the exits and *)
(* of the poll.  ShallowSpec is a session whose TaskStack is shallower     *)
(* than the total limit, as in the constructor.  InterleavedSpec splits    *)
(* createSubtask at its awaits and lets the parts of several calls         *)
(* interleave with further directives.                                     *)
(***************************************************************************)
EXTENDS Integers, Sequences, FiniteSets, TLC

\* ---------------------------------------------------------------- bounds
\* TaskLimits the SafetyManager is constructed with, and the stack capacity
\* (TASK_DEFAULTS scaled down).
MaxTotalTasks == 3
MaxDepth == 2
MaxChildren == 2
StackMaxDepth == 3

\* TaskLimits of the sessions in which the depth, children and sibling limits
\* are reached before the total
LimMaxTotalTasks == 5
LimMaxDepth == 1
LimMaxChildren == 4

\* total of the sessions in which every public operation is called
ApiMaxTotalTasks == 2
TsMaxDepth == 3
TsMaxId == 2
TsMaxPushes == 4
MaxFragments == 3
MaxAgents == 3
IlvMaxTotalTasks == 4
ShallowStackDepth == 2

\* the same-mode sibling threshold of the loop heuristic
MAX_SAME_MODE_SIBLINGS == 3
\* PROGRESS_DEFAULTS.INITIAL_PROGRESS
INITIAL_PROGRESS == 10
\* progress written on completion
COMPLETED_PROGRESS == 100
MAX_TURNS == 10

\* inputs
RootModes == {"coder"}
SubtaskModes == {"tester"}
\* modes of the subtasks where siblings of different modes matter
SiblingModes == {"coder", "tester"}
Results == {"ok"}
\* 1 stands for every non-zero code and for the null code of a signal
ExitCodes == {0, 1}

Undefined == "undefined"
NoParent == 0

VARIABLES
    tasks,           \* TaskOrchestrator.tasks: id -> Task
    taskCounter,     \* TaskOrchestrator.taskCounter
    stack,           \* TaskStack.stack: sequence of task ids, bottom first
    gooseProcesses,  \* key set of TaskOrchestrator.gooseProcesses
    proc,            \* OS process of each task's worker
    stdin,           \* last "[Subtask completed]" line written to each worker's input
    progress,        \* ProgressTracker.progress: id -> ProgressEntry
    totalTaskCount,  \* SafetyManager.totalTaskCount
    sessionExpired,  \* Date.now() - sessionStartTime > maxDuration
    taskLimits,      \* SafetyManager.taskLimits
    stackMaxDepth,   \* TaskStack.maxDepth
    completionWait,  \* promise of waitForCompletion: "none", "pending", "resolved"
    instruction,     \* initial instruction of each task: "none", "scheduled", "sent", "undelivered"
    taskStack,       \* a TaskStack used on its own: stack, maxDepth, last call's events and result
    output,          \* a chunk of worker output given to OrchestrationHandler
    toolCalls,       \* result of the last parseOutput
    responses,       \* result of the last processToolCalls
    detected,        \* result of the last hasOrchestrationTools
    called,          \* the OrchestrationHandler methods called on the chunk so far
    suspended        \* createSubtask calls waiting at one of their awaits

vars == <<tasks, taskCounter, stack, gooseProcesses, proc, stdin, progress,
          totalTaskCount, sessionExpired, taskLimits, stackMaxDepth,
          completionWait, instruction, taskStack, output, toolCalls, responses,
          detected, called, suspended>>

\* The mutable program state as one record, threaded through the handlers.
State ==
    [tasks |-> tasks, taskCounter |-> taskCounter, stack |-> stack,
     gooseProcesses |-> gooseProcesses, proc |-> proc, stdin |-> stdin,
     progress |-> progress, totalTaskCount |-> totalTaskCount,
     sessionExpired |-> sessionExpired, taskLimits |-> taskLimits,
     stackMaxDepth |-> stackMaxDepth, completionWait |-> completionWait,
     instruction |-> instruction, taskStack |-> taskStack, output |-> output,
     toolCalls |-> toolCalls, responses |-> responses, detected |-> detected,
     called |-> called, suspended |-> suspended]

Commit(S) ==
    /\ tasks' = S.tasks
    /\ taskCounter' = S.taskCounter
    /\ stack' = S.stack
    /\ gooseProcesses' = S.gooseProcesses
    /\ proc' = S.proc
    /\ stdin' = S.stdin
    /\ progress' = S.progress
    /\ totalTaskCount' = S.totalTaskCount
    /\ sessionExpired' = S.sessionExpired
    /\ taskLimits' = S.taskLimits
    /\ stackMaxDepth' = S.stackMaxDepth
    /\ completionWait' = S.completionWait
    /\ instruction' = S.instruction
    /\ taskStack' = S.taskStack
    /\ output' = S.output
    /\ toolCalls' = S.toolCalls
    /\ responses' = S.responses
    /\ detected' = S.detected
    /\ called' = S.called
    /\ suspended' = S.suspended

Terminal == {"completed", "failed"}
Active == {"pending", "running", "paused"}

\* ------------------------------------------------------------ sequences
SeqIndexOf(seq, x) ==
    IF \E i \in 1..Len(seq) : seq[i] = x
    THEN CHOOSE i \in 1..Len(seq) : seq[i] = x /\ \A j \in 1..(i-1) : seq[j] # x
    ELSE 0

SeqRemoveAt(seq, i) ==
    [j \in 1..(Len(seq)-1) |-> IF j < i THEN seq[j] ELSE seq[j+1]]

SeqRange(seq) == {seq[i] : i \in 1..Len(seq)}

\* Object.assign(target, updates): fields of updates override target's
Merge(target, updates) ==
    [f \in DOMAIN target |-> IF f \in DOMAIN updates THEN updates[f] ELSE target[f]]

\* ------------------------------------------------------------ TaskStack
StackFull(S) == Len(S.stack) >= S.stackMaxDepth

StackPush(S, id) == [S EXCEPT !.stack = Append(S.stack, id)]

StackUpdateTask(S, id, updates) ==
    IF id \in SeqRange(S.stack)
    THEN [S EXCEPT !.tasks[id] = Merge(S.tasks[id], updates)]
    ELSE S

StackRemoveTask(S, id) ==
    LET index == SeqIndexOf(S.stack, id) IN
    IF index = 0 THEN S ELSE [S EXCEPT !.stack = SeqRemoveAt(S.stack, index)]

StackClear(S) == [S EXCEPT !.stack = <<>>]

\* ------------------------------------------------------ ProgressTracker
\* entry.f || existing?.f || dflt for a string field
OrString(entry, existing, f, dflt) ==
    IF f \in DOMAIN entry /\ entry[f] # "" /\ entry[f] # Undefined THEN entry[f]
    ELSE IF f \in DOMAIN existing /\ existing[f] # "" /\ existing[f] # Undefined
         THEN existing[f]
    ELSE dflt

\* entry.f || existing?.f || dflt for a number field
OrNumber(entry, existing, f, dflt) ==
    IF f \in DOMAIN entry /\ entry[f] # 0 THEN entry[f]
    ELSE IF f \in DOMAIN existing /\ existing[f] # 0 THEN existing[f]
    ELSE dflt

EmptyRecord == [x \in {} |-> 0]

UpdateProgress(S, agentId, entry) ==
    LET existing == IF agentId \in DOMAIN S.progress THEN S.progress[agentId]
                    ELSE EmptyRecord
        updated == [agentName |-> OrString(entry, existing, "agentName", "unknown"),
                    status |-> OrString(entry, existing, "status", "unknown"),
                    progress |-> OrNumber(entry, existing, "progress", 0),
                    currentTask |-> OrString(entry, existing, "currentTask", Undefined)]
    IN [S EXCEPT !.progress =
            [a \in DOMAIN S.progress \cup {agentId} |->
                IF a = agentId THEN updated ELSE S.progress[a]]]

\* -------------------------------------------------------- SafetyManager
\* number of children of parentId that are registered and have mode newTaskMode
RecentSiblings(S, parentId, newTaskMode) ==
    Cardinality({i \in 1..Len(S.tasks[parentId].children) :
        /\ S.tasks[parentId].children[i] \in DOMAIN S.tasks
        /\ S.tasks[S.tasks[parentId].children[i]].mode = newTaskMode})

\* mutant: the total is compared without the +1 for the new task
ValidateOk_CountsWithoutNewTask(S, parentId, newTaskMode) ==
    /\ ~(Cardinality(DOMAIN S.tasks) > S.taskLimits.maxTotalTasks)
    /\ ~S.sessionExpired
    /\ parentId # NoParent =>
        /\ ~(S.tasks[parentId].depth >= S.taskLimits.maxDepth)
        /\ ~(Len(S.tasks[parentId].children) >= S.taskLimits.maxChildren)
        /\ ~(RecentSiblings(S, parentId, newTaskMode) >= MAX_SAME_MODE_SIBLINGS)

\* mutant: a parent at maxDepth may still delegate
ValidateOk_DepthAboveLimit(S, parentId, newTaskMode) ==
    /\ ~(Cardinality(DOMAIN S.tasks) + 1 > S.taskLimits.maxTotalTasks)
    /\ ~S.sessionExpired
    /\ parentId # NoParent =>
        /\ ~(S.tasks[parentId].depth > S.taskLimits.maxDepth)
        /\ ~(Len(S.tasks[parentId].children) >= S.taskLimits.maxChildren)
        /\ ~(RecentSiblings(S, parentId, newTaskMode) >= MAX_SAME_MODE_SIBLINGS)

\* mutant: a parent with maxChildren children may still delegate
ValidateOk_ChildrenAboveLimit(S, parentId, newTaskMode) ==
    /\ ~(Cardinality(DOMAIN S.tasks) + 1 > S.taskLimits.maxTotalTasks)
    /\ ~S.sessionExpired
    /\ parentId # NoParent =>
        /\ ~(S.tasks[parentId].depth >= S.taskLimits.maxDepth)
        /\ ~(Len(S.tasks[parentId].children) > S.taskLimits.maxChildren)
        /\ ~(RecentSiblings(S, parentId, newTaskMode) >= MAX_SAME_MODE_SIBLINGS)

\* mutant: a fourth sibling of the same mode is let through
ValidateOk_FourthSibling(S, parentId, newTaskMode) ==
    /\ ~(Cardinality(DOMAIN S.tasks) + 1 > S.taskLimits.maxTotalTasks)
    /\ ~S.sessionExpired
    /\ parentId # NoParent =>
        /\ ~(S.tasks[parentId].depth >= S.taskLimits.maxDepth)
        /\ ~(Len(S.tasks[parentId].children) >= S.taskLimits.maxChildren)
        /\ ~(RecentSiblings(S, parentId, newTaskMode) > MAX_SAME_MODE_SIBLINGS)

\* TRUE when validateTaskCreation returns, FALSE when it throws
ValidateOk(S, parentId, newTaskMode) ==
    /\ ~(Cardinality(DOMAIN S.tasks) + 1 > S.taskLimits.maxTotalTasks)
    /\ ~S.sessionExpired
    /\ parentId # NoParent =>
        /\ ~(S.tasks[parentId].depth >= S.taskLimits.maxDepth)
        /\ ~(Len(S.tasks[parentId].children) >= S.taskLimits.maxChildren)
        /\ ~(RecentSiblings(S, parentId, newTaskMode) >= MAX_SAME_MODE_SIBLINGS)

\* message of the Error validateTaskCreation throws, "none" when it returns
ValidateError(S, parentId, newTaskMode) ==
    IF Cardinality(DOMAIN S.tasks) + 1 > S.taskLimits.maxTotalTasks
    THEN "Maximum total tasks exceeded"
    ELSE IF S.sessionExpired THEN "Maximum session duration exceeded"
    ELSE IF parentId = NoParent THEN "none"
    ELSE IF S.tasks[parentId].depth >= S.taskLimits.maxDepth
    THEN "Maximum task depth exceeded"
    ELSE IF Len(S.tasks[parentId].children) >= S.taskLimits.maxChildren
    THEN "Maximum children per task exceeded"
    ELSE IF RecentSiblings(S, parentId, newTaskMode) >= MAX_SAME_MODE_SIBLINGS
    THEN "Potential infinite loop detected"
    ELSE "none"

\* the one write of validateTaskCreation, done before any check
ValidateTaskCreation(S, parentId, newTaskMode) ==
    [S EXCEPT !.totalTaskCount = Cardinality(DOMAIN S.tasks) + 1]

\* getSessionStats without the two durations
GetSessionStats(S) ==
    [totalTasks |-> S.totalTaskCount,
     limitsStatus |-> [tasksRemaining |-> S.taskLimits.maxTotalTasks - S.totalTaskCount,
                       depthLimit |-> S.taskLimits.maxDepth,
                       childrenLimit |-> S.taskLimits.maxChildren]]

\* ------------------------------------------------------ worker process
\* stdin && !stdin.destroyed of the worker's child process
StdinWritable(S, id) == S.proc[id] \in {"alive", "killed"}

StdinWrite(S, id, message) == [S EXCEPT !.stdin[id] = message]

\* ------------------------------------------------------- PromptManager
GenerateCompletionMessage(parentId, result) ==
    <<"[Subtask completed] Result:">> \o result

\* String(code) in the template literal of handleTaskExit
CodeText(code) == IF code = 0 THEN "0" ELSE "1"

\* ----------------------------------------------------- TaskOrchestrator
AgentName(mode, kind) ==
    IF kind = "root"
    THEN (IF mode = "coder" THEN "coder-root" ELSE "tester-root")
    ELSE (IF mode = "coder" THEN "coder-subtask" ELSE "tester-subtask")

\* mutant: every task is created at depth 0
CreateTask_DepthZero(id, mode, depth, parentId, rootId) ==
    [mode |-> mode, status |-> "pending", depth |-> 0, parentId |-> parentId,
     rootId |-> rootId, children |-> <<>>, result |-> Undefined, isPaused |-> FALSE]

CreateTask(id, mode, depth, parentId, rootId) ==
    [mode |-> mode, status |-> "pending", depth |-> depth, parentId |-> parentId,
     rootId |-> rootId, children |-> <<>>, result |-> Undefined, isPaused |-> FALSE]

\* this.tasks.set(task.id, task); the id has no worker yet
TasksSet(S, id, task) ==
    [S EXCEPT !.tasks = [t \in DOMAIN S.tasks \cup {id} |->
                            IF t = id THEN task ELSE S.tasks[t]],
              !.proc = [t \in DOMAIN S.proc \cup {id} |->
                            IF t = id THEN "none" ELSE S.proc[t]],
              !.stdin = [t \in DOMAIN S.stdin \cup {id} |->
                            IF t = id THEN <<>> ELSE S.stdin[t]],
              !.instruction = [t \in DOMAIN S.instruction \cup {id} |->
                            IF t = id THEN "none" ELSE S.instruction[t]]]

StopGooseProcess(S, taskId) ==
    IF taskId \notin S.gooseProcesses THEN S
    ELSE [S EXCEPT !.proc[taskId] = IF @ = "alive" THEN "killed" ELSE @,
                   !.gooseProcesses = @ \ {taskId}]

StartTask(S, id) ==
    LET S1 == [S EXCEPT !.gooseProcesses = @ \cup {id},
                        !.proc[id] = "alive",
                        !.tasks[id].status = "running"]
        S2 == StackUpdateTask(S1, id, [status |-> "running"])
        S3 == UpdateProgress(S2, id, [status |-> "running", progress |-> INITIAL_PROGRESS])
    IN [S3 EXCEPT !.instruction[id] = "scheduled"]

\* The timer set by startTask fires.  The instruction is written when the
\* worker's input is there and the write does not throw; otherwise the
\* failure is logged.  There is no other effect.
SendInitialInstruction(S, id, writeThrows) ==
    IF StdinWritable(S, id) /\ ~writeThrows
    THEN [S EXCEPT !.instruction[id] = "sent"]
    ELSE [S EXCEPT !.instruction[id] = "undelivered"]

\* mutant: the ledger is written before the task is looked up
PauseTask_LedgerFirst(S, taskId) ==
    IF taskId \notin DOMAIN S.tasks THEN UpdateProgress(S, taskId, [status |-> "paused"])
    ELSE LET S1 == [S EXCEPT !.tasks[taskId].isPaused = TRUE,
                             !.tasks[taskId].status = "paused"]
             S2 == StackUpdateTask(S1, taskId, [isPaused |-> TRUE, status |-> "paused"])
         IN UpdateProgress(S2, taskId, [status |-> "paused"])

\* mutant: pausing a task also stops its worker
PauseTask_StopsWorker(S, taskId) ==
    IF taskId \notin DOMAIN S.tasks THEN S
    ELSE LET S1 == [S EXCEPT !.tasks[taskId].isPaused = TRUE,
                             !.tasks[taskId].status = "paused"]
             S2 == StackUpdateTask(S1, taskId, [isPaused |-> TRUE, status |-> "paused"])
         IN StopGooseProcess(UpdateProgress(S2, taskId, [status |-> "paused"]), taskId)

PauseTask(S, taskId) ==
    IF taskId \notin DOMAIN S.tasks THEN S
    ELSE LET S1 == [S EXCEPT !.tasks[taskId].isPaused = TRUE,
                             !.tasks[taskId].status = "paused"]
             S2 == StackUpdateTask(S1, taskId, [isPaused |-> TRUE, status |-> "paused"])
         IN UpdateProgress(S2, taskId, [status |-> "paused"])

\* mutant: the parent is resumed without the message to its worker
ResumeParentTask_NoMessage(S, parentId, completionMessage) ==
    IF parentId \notin DOMAIN S.tasks THEN S
    ELSE LET S1 == [S EXCEPT !.tasks[parentId].isPaused = FALSE,
                             !.tasks[parentId].status = "running"]
             S3 == StackUpdateTask(S1, parentId, [isPaused |-> FALSE, status |-> "running"])
         IN UpdateProgress(S3, parentId, [status |-> "running"])

ResumeParentTask(S, parentId, completionMessage) ==
    IF parentId \notin DOMAIN S.tasks THEN S
    ELSE LET S1 == [S EXCEPT !.tasks[parentId].isPaused = FALSE,
                             !.tasks[parentId].status = "running"]
             S2 == IF parentId \in S1.gooseProcesses /\ StdinWritable(S1, parentId)
                   THEN StdinWrite(S1, parentId,
                            GenerateCompletionMessage(parentId, completionMessage))
                   ELSE S1
             S3 == StackUpdateTask(S2, parentId, [isPaused |-> FALSE, status |-> "running"])
         IN UpdateProgress(S3, parentId, [status |-> "running"])

CreateRootTask(S, mode) ==
    LET V == ValidateTaskCreation(S, NoParent, mode) IN
    IF ~ValidateOk(S, NoParent, mode) THEN V
    ELSE LET id == V.taskCounter + 1
             S1 == TasksSet([V EXCEPT !.taskCounter = id], id,
                            CreateTask(id, mode, 0, NoParent, id))
         IN IF StackFull(S1) THEN S1
            ELSE StartTask(
                    UpdateProgress(StackPush(S1, id), id,
                        [agentName |-> AgentName(mode, "root"), status |-> "pending",
                         progress |-> 0, currentTask |-> "instruction"]),
                    id)

\* message of the error createRootTask throws, "none" when it returns an id
CreateRootTaskError(S, mode) ==
    IF ValidateError(S, NoParent, mode) # "none" THEN ValidateError(S, NoParent, mode)
    ELSE IF StackFull(S) THEN "Maximum task depth exceeded"
    ELSE "none"

\* mutant: the parent is paused before the request is validated
CreateSubtask_PausesBeforeValidation(S, parentId, mode) ==
    IF parentId \notin DOMAIN S.tasks THEN S
    ELSE IF S.tasks[parentId].rootId \notin DOMAIN S.tasks THEN S
    ELSE LET V == ValidateTaskCreation(PauseTask(S, parentId), parentId, mode) IN
    IF ~ValidateOk(S, parentId, mode) THEN V
    ELSE LET id == V.taskCounter + 1
             S1 == TasksSet([V EXCEPT !.taskCounter = id], id,
                            CreateTask(id, mode, V.tasks[parentId].depth + 1, parentId,
                                       V.tasks[parentId].rootId))
         IN IF StackFull(S1) THEN S1
            ELSE LET S2 == StackPush(S1, id)
                     S3 == [S2 EXCEPT !.tasks[parentId].children = Append(@, id)]
                     S5 == UpdateProgress(S3, id,
                              [agentName |-> AgentName(mode, "subtask"),
                               status |-> "pending", progress |-> 0,
                               currentTask |-> "instruction"])
                 IN StartTask(S5, id)

\* mutant: the parent is left as it is
CreateSubtask_NoPause(S, parentId, mode) ==
    IF parentId \notin DOMAIN S.tasks THEN S
    ELSE IF S.tasks[parentId].rootId \notin DOMAIN S.tasks THEN S
    ELSE LET V == ValidateTaskCreation(S, parentId, mode) IN
    IF ~ValidateOk(S, parentId, mode) THEN V
    ELSE LET id == V.taskCounter + 1
             S1 == TasksSet([V EXCEPT !.taskCounter = id], id,
                            CreateTask(id, mode, V.tasks[parentId].depth + 1, parentId,
                                       V.tasks[parentId].rootId))
         IN IF StackFull(S1) THEN S1
            ELSE LET S2 == StackPush(S1, id)
                     S3 == [S2 EXCEPT !.tasks[parentId].children = Append(@, id)]
                     S5 == UpdateProgress(S3, id,
                              [agentName |-> AgentName(mode, "subtask"),
                               status |-> "pending", progress |-> 0,
                               currentTask |-> "instruction"])
                 IN StartTask(S5, id)

CreateSubtask(S, parentId, mode) ==
    IF parentId \notin DOMAIN S.tasks THEN S
    ELSE IF S.tasks[parentId].rootId \notin DOMAIN S.tasks THEN S
    ELSE LET V == ValidateTaskCreation(S, parentId, mode) IN
    IF ~ValidateOk(S, parentId, mode) THEN V
    ELSE LET id == V.taskCounter + 1
             S1 == TasksSet([V EXCEPT !.taskCounter = id], id,
                            CreateTask(id, mode, V.tasks[parentId].depth + 1, parentId,
                                       V.tasks[parentId].rootId))
         IN IF StackFull(S1) THEN S1
            ELSE LET S2 == StackPush(S1, id)
                     S3 == [S2 EXCEPT !.tasks[parentId].children = Append(@, id)]
                     S4 == PauseTask(S3, parentId)
                     S5 == UpdateProgress(S4, id,
                              [agentName |-> AgentName(mode, "subtask"),
                               status |-> "pending", progress |-> 0,
                               currentTask |-> "instruction"])
                 IN StartTask(S5, id)

\* message of the error createSubtask throws, "none" when it returns an id
CreateSubtaskError(S, parentId, mode) ==
    IF parentId \notin DOMAIN S.tasks THEN "Parent task not found"
    ELSE IF S.tasks[parentId].rootId \notin DOMAIN S.tasks
    THEN "Root task not found for parent"
    ELSE IF ValidateError(S, parentId, mode) # "none"
    THEN ValidateError(S, parentId, mode)
    ELSE IF StackFull(S) THEN "Maximum task depth exceeded"
    ELSE "none"

\* the id createSubtask returns
CreateSubtaskReturn(S, parentId, mode) == CreateSubtask(S, parentId, mode).taskCounter

\* ---------------------------------------- createSubtask, await by await
\* createSubtask is an async function: it runs without interruption up to an
\* await whose promise is not settled (the ledger's file write, the
\* directory creation), and other callbacks run before it goes on.

\* mutant: the map the validator reads lacks the tasks of the calls that
\* are still suspended
StaleMap(S) ==
    LET inFlight == {c.id : c \in S.suspended} IN
    [S EXCEPT !.tasks = [t \in DOMAIN S.tasks \ inFlight |->
        [S.tasks[t] EXCEPT !.children = SelectSeq(@, LAMBDA c : c \notin inFlight)]]]

CreateSubtaskBegin_StaleMap(S, parentId, mode) ==
    IF parentId \notin DOMAIN S.tasks THEN S
    ELSE IF S.tasks[parentId].rootId \notin DOMAIN S.tasks THEN S
    ELSE LET V == ValidateTaskCreation(S, parentId, mode) IN
    IF ~ValidateOk(StaleMap(S), parentId, mode) THEN V
    ELSE LET id == V.taskCounter + 1
             S1 == TasksSet([V EXCEPT !.taskCounter = id], id,
                            CreateTask(id, mode, V.tasks[parentId].depth + 1, parentId,
                                       V.tasks[parentId].rootId))
         IN IF StackFull(S1) THEN S1
            ELSE LET S2 == StackPush(S1, id)
                     S3 == [S2 EXCEPT !.tasks[parentId].children = Append(@, id)]
                     S4 == PauseTask(S3, parentId)
                 IN [S4 EXCEPT !.suspended = @ \cup
                        {[id |-> id, mode |-> mode, at |-> "pauseTask"]}]

\* from the call to the file write of pauseTask's ledger entry: validation,
\* registration, the stack, the parent's children list and the parent's pause
CreateSubtaskBegin(S, parentId, mode) ==
    IF parentId \notin DOMAIN S.tasks THEN S
    ELSE IF S.tasks[parentId].rootId \notin DOMAIN S.tasks THEN S
    ELSE LET V == ValidateTaskCreation(S, parentId, mode) IN
    IF ~ValidateOk(S, parentId, mode) THEN V
    ELSE LET id == V.taskCounter + 1
             S1 == TasksSet([V EXCEPT !.taskCounter = id], id,
                            CreateTask(id, mode, V.tasks[parentId].depth + 1, parentId,
                                       V.tasks[parentId].rootId))
         IN IF StackFull(S1) THEN S1
            ELSE LET S2 == StackPush(S1, id)
                     S3 == [S2 EXCEPT !.tasks[parentId].children = Append(@, id)]
                     S4 == PauseTask(S3, parentId)
                 IN [S4 EXCEPT !.suspended = @ \cup
                        {[id |-> id, mode |-> mode, at |-> "pauseTask"]}]

\* from there to the directory creation of startTask: the new task's
\* ledger entry
CreateSubtaskRecord(S, c) ==
    [UpdateProgress(S, c.id,
        [agentName |-> AgentName(c.mode, "subtask"), status |-> "pending",
         progress |-> 0, currentTask |-> "instruction"])
     EXCEPT !.suspended = (@ \ {c}) \cup {[c EXCEPT !.at = "startTask"]}]

\* from there to the return: the worker is spawned and the task runs
CreateSubtaskStart(S, c) ==
    [StartTask(S, c.id) EXCEPT !.suspended = @ \ {c}]

\* mutant: the completed task is left on the stack
CompleteTask_KeepsStackEntry(S, taskId, result) ==
    IF taskId \notin DOMAIN S.tasks THEN S
    ELSE LET S1 == [S EXCEPT !.tasks[taskId].status = "completed",
                             !.tasks[taskId].result = result]
             S2 == StopGooseProcess(S1, taskId)
             S4 == UpdateProgress(S2, taskId,
                      [status |-> "completed", progress |-> COMPLETED_PROGRESS])
         IN IF S4.tasks[taskId].parentId # NoParent
            THEN ResumeParentTask(S4, S4.tasks[taskId].parentId, <<result>>)
            ELSE S4

CompleteTask(S, taskId, result) ==
    IF taskId \notin DOMAIN S.tasks THEN S
    ELSE LET S1 == [S EXCEPT !.tasks[taskId].status = "completed",
                             !.tasks[taskId].result = result]
             S2 == StopGooseProcess(S1, taskId)
             S3 == StackRemoveTask(S2, taskId)
             S4 == UpdateProgress(S3, taskId,
                      [status |-> "completed", progress |-> COMPLETED_PROGRESS])
         IN IF S4.tasks[taskId].parentId # NoParent
            THEN ResumeParentTask(S4, S4.tasks[taskId].parentId, <<result>>)
            ELSE S4

\* mutant: the worker stays bound
StopTask_KeepsBinding(S, taskId) ==
    IF taskId \notin DOMAIN S.tasks THEN S
    ELSE LET S2 == [S EXCEPT !.tasks[taskId].status = "failed"]
             S3 == StackRemoveTask(S2, taskId)
         IN UpdateProgress(S3, taskId, [status |-> "failed", progress |-> 0])

StopTask(S, taskId) ==
    IF taskId \notin DOMAIN S.tasks THEN S
    ELSE LET S1 == StopGooseProcess(S, taskId)
             S2 == [S1 EXCEPT !.tasks[taskId].status = "failed"]
             S3 == StackRemoveTask(S2, taskId)
         IN UpdateProgress(S3, taskId, [status |-> "failed", progress |-> 0])

\* message of the error completeTask, pauseTask and stopTask throw
TaskNotFoundError(S, taskId) ==
    IF taskId \notin DOMAIN S.tasks THEN "Task not found" ELSE "none"

\* stopTask for the keys of the task map, in insertion order, starting at id
RECURSIVE StopFrom(_, _)
StopFrom(S, id) ==
    IF id > S.taskCounter THEN S ELSE StopFrom(StopTask(S, id), id + 1)

StopAllTasks(S) == StackClear(StopFrom(S, 1))

\* mutant: the parent of a failed subtask is not resumed
HandleTaskExit_NoResume(S, id, exitCode) ==
    [S EXCEPT !.gooseProcesses = @ \ {id}]

HandleTaskExit(S, id, exitCode) ==
    LET S1 == [S EXCEPT !.gooseProcesses = @ \ {id}] IN
    IF exitCode # 0 /\ S1.tasks[id].parentId # NoParent
    THEN ResumeParentTask(S1, S1.tasks[id].parentId,
             <<"Subtask failed with exit code:", CodeText(exitCode)>>)
    ELSE S1

\* gooseProcess.process.on('exit', ...)
OnExit(S, id, code) ==
    LET status == IF code = 0 THEN "completed" ELSE "failed"
        S1 == IF S.tasks[id].status # "completed"
              THEN StackUpdateTask([S EXCEPT !.tasks[id].status = status], id,
                                   [status |-> status])
              ELSE S
        S2 == UpdateProgress(S1, id,
                 [status |-> S1.tasks[id].status,
                  progress |-> IF S1.tasks[id].status = "completed"
                               THEN COMPLETED_PROGRESS ELSE 0])
    IN HandleTaskExit(S2, id, code)

\* gooseProcess.process.on('error', ...)
OnError(S, id) ==
    LET S1 == [S EXCEPT !.tasks[id].status = "failed"]
        S2 == StackUpdateTask(S1, id, [status |-> "failed"])
    IN UpdateProgress(S2, id, [status |-> "failed", progress |-> 0])

\* updateProgressFromOutput for a chunk that holds just a directive
UpdateProgressFromOutput(S, id) ==
    UpdateProgress(S, id, [progress |-> INITIAL_PROGRESS, currentTask |-> Undefined])

\* stdout chunk "new_task {mode: m, instruction: ...}" of worker taskId:
\* processOrchestrationOutput, then updateProgressFromOutput
OnNewTaskOutput(S, taskId, mode) ==
    UpdateProgressFromOutput(CreateSubtask(S, taskId, mode), taskId)

\* stdout chunk "attempt_completion {result: r}" of worker taskId; the ledger
\* write of updateProgressFromOutput comes before that of completeTask
OnAttemptCompletionOutput(S, taskId, result) ==
    CompleteTask(UpdateProgressFromOutput(S, taskId), taskId, result)

\* buildTaskHierarchy: the node of a task, its children being the nodes of
\* the registered ids of its children list
RECURSIVE BuildTaskHierarchy(_, _)
BuildTaskHierarchy(S, id) ==
    LET kept == SelectSeq(S.tasks[id].children, LAMBDA c : c \in DOMAIN S.tasks)
    IN [id |-> id, mode |-> S.tasks[id].mode, status |-> S.tasks[id].status,
        depth |-> S.tasks[id].depth,
        children |-> [i \in 1..Len(kept) |-> BuildTaskHierarchy(S, kept[i])],
        result |-> S.tasks[id].result]

\* the values of the task map in insertion order
GetAllTasks(S) ==
    SelectSeq([i \in 1..S.taskCounter |-> i], LAMBDA t : t \in DOMAIN S.tasks)

\* mutant: the top-level nodes are taken from the stack
GetTaskHierarchy_FromStack(S) ==
    LET rootTasks == SelectSeq(S.stack, LAMBDA t : S.tasks[t].parentId = NoParent)
    IN [i \in 1..Len(rootTasks) |-> BuildTaskHierarchy(S, rootTasks[i])]

GetTaskHierarchy(S) ==
    LET rootTasks == SelectSeq(GetAllTasks(S),
                               LAMBDA t : S.tasks[t].parentId = NoParent)
    IN [i \in 1..Len(rootTasks) |-> BuildTaskHierarchy(S, rootTasks[i])]

\* mutant: paused tasks do not count as active
CheckCompletion_IgnoresPaused(S) ==
    LET activeTasks == {t \in DOMAIN S.tasks :
                            \/ S.tasks[t].status = "running"
                            \/ S.tasks[t].status = "pending"}
    IN IF activeTasks = {} THEN [S EXCEPT !.completionWait = "resolved"]
       ELSE [S EXCEPT !.completionWait = "pending"]

\* checkCompletion of waitForCompletion: resolve, or arm the timer again
CheckCompletion(S) ==
    LET activeTasks == {t \in DOMAIN S.tasks :
                            \/ S.tasks[t].status = "running"
                            \/ S.tasks[t].status = "pending"
                            \/ S.tasks[t].status = "paused"}
    IN IF activeTasks = {} THEN [S EXCEPT !.completionWait = "resolved"]
       ELSE [S EXCEPT !.completionWait = "pending"]

\* waitForCompletion: a new promise whose executor runs checkCompletion
WaitForCompletion(S) == CheckCompletion([S EXCEPT !.completionWait = "pending"])

\* ------------------------------------------------------------- actions
\* the TaskStack and the OrchestrationHandler of the component sessions rest
NewTaskStack(maxDepth) ==
    [stack |-> <<>>, maxDepth |-> maxDepth, clock |-> 0, emitted |-> <<>>,
     returned |-> <<>>, updated |-> <<>>, threw |-> FALSE]

TaskStackUnused == taskStack = NewTaskStack(0)

HandlerUnused ==
    /\ output = <<>>
    /\ toolCalls = <<>>
    /\ responses = <<>>
    /\ detected = FALSE
    /\ called = {}

ComponentsUnused == TaskStackUnused /\ HandlerUnused

OrchestratorUnused ==
    /\ tasks = <<>>
    /\ taskCounter = 0
    /\ stack = <<>>
    /\ gooseProcesses = {}
    /\ proc = <<>>
    /\ stdin = <<>>
    /\ progress = <<>>
    /\ totalTaskCount = 0
    /\ sessionExpired = FALSE
    /\ taskLimits = [maxDepth |-> MaxDepth, maxChildren |-> MaxChildren,
                     maxTotalTasks |-> MaxTotalTasks]
    /\ stackMaxDepth = StackMaxDepth
    /\ completionWait = "none"
    /\ instruction = <<>>
    /\ suspended = {}

\* ids a caller can name: the registered ones and one that is not
CallerIds == 1..(taskCounter + 1)

Init ==
    /\ tasks = <<>>
    /\ taskCounter = 0
    /\ stack = <<>>
    /\ gooseProcesses = {}
    /\ proc = <<>>
    /\ stdin = <<>>
    /\ progress = <<>>
    /\ totalTaskCount = 0
    /\ sessionExpired = FALSE
    /\ taskLimits = [maxDepth |-> MaxDepth, maxChildren |-> MaxChildren,
                     maxTotalTasks |-> MaxTotalTasks]
    /\ stackMaxDepth = StackMaxDepth
    /\ completionWait = "none"
    /\ instruction = <<>>
    /\ suspended = {}
    /\ ComponentsUnused

DoCreateRootTask == \E mode \in RootModes : Commit(CreateRootTask(State, mode))

DoCreateSubtask ==
    \E parentId \in CallerIds, mode \in SubtaskModes :
        Commit(CreateSubtask(State, parentId, mode))

DoCompleteTask ==
    \E taskId \in CallerIds, result \in Results :
        Commit(CompleteTask(State, taskId, result))

DoStopTask == \E taskId \in CallerIds : Commit(StopTask(State, taskId))

DoStopAllTasks == Commit(StopAllTasks(State))

\* a worker writes while its process lives, also after SIGTERM was sent
WorkerNewTask ==
    \E taskId \in DOMAIN tasks, mode \in SubtaskModes :
        /\ proc[taskId] \in {"alive", "killed"}
        /\ Commit(OnNewTaskOutput(State, taskId, mode))

WorkerAttemptCompletion ==
    \E taskId \in DOMAIN tasks, result \in Results :
        /\ proc[taskId] \in {"alive", "killed"}
        /\ Commit(OnAttemptCompletionOutput(State, taskId, result))

\* 'exit' fires once; after 'error' it may or may not fire
WorkerExit ==
    \E taskId \in DOMAIN tasks, code \in ExitCodes :
        /\ proc[taskId] \in {"alive", "killed", "errored"}
        /\ proc[taskId] = "errored" => code # 0
        /\ Commit(OnExit([State EXCEPT !.proc[taskId] = "exited"], taskId, code))

\* 'error': the process could not be spawned or killed
WorkerError ==
    \E taskId \in DOMAIN tasks :
        /\ proc[taskId] \in {"alive", "killed"}
        /\ Commit(OnError([State EXCEPT !.proc[taskId] = "errored"], taskId))

Next ==
    \/ DoCreateRootTask
    \/ DoCreateSubtask
    \/ DoCompleteTask
    \/ DoStopTask
    \/ DoStopAllTasks
    \/ WorkerNewTask
    \/ WorkerAttemptCompletion
    \/ WorkerExit
    \/ WorkerError

Spec == Init /\ [][Next]_vars

\* ------------------------------------ sessions using every public operation
ApiInit ==
    /\ tasks = <<>>
    /\ taskCounter = 0
    /\ stack = <<>>
    /\ gooseProcesses = {}
    /\ proc = <<>>
    /\ stdin = <<>>
    /\ progress = <<>>
    /\ totalTaskCount = 0
    /\ sessionExpired = FALSE
    /\ taskLimits = [maxDepth |-> MaxDepth, maxChildren |-> MaxChildren,
                     maxTotalTasks |-> ApiMaxTotalTasks]
    /\ stackMaxDepth = StackMaxDepth
    /\ completionWait = "none"
    /\ instruction = <<>>
    /\ suspended = {}
    /\ ComponentsUnused

DoPauseTask == \E taskId \in CallerIds : Commit(PauseTask(State, taskId))

\* one caller waits at a time
DoWaitForCompletion ==
    /\ completionWait # "pending"
    /\ Commit(WaitForCompletion(State))

\* the 1000 ms timer of a pending waitForCompletion fires
PollCompletion ==
    /\ completionWait = "pending"
    /\ Commit(CheckCompletion(State))

ApiNext ==
    \/ Next
    \/ DoPauseTask
    \/ DoWaitForCompletion
    \/ PollCompletion

ApiSpec == ApiInit /\ [][ApiNext]_vars

\* ------------------------------------ sessions in which every worker exits
\* Tasks are created by the caller and by the workers' new_task directives;
\* a process that runs exits in the end (by itself or by the timeout of the
\* spawner), and the timer of a pending waitForCompletion fires.
ExitNext ==
    \/ DoCreateRootTask
    \/ WorkerNewTask
    \/ WorkerExit
    \/ DoWaitForCompletion
    \/ PollCompletion

ExitSpec ==
    ApiInit /\ [][ExitNext]_vars /\ WF_vars(WorkerExit) /\ WF_vars(PollCompletion)

\* ------------------------- sessions with the timer of the initial instruction
\* INSTRUCTION_DELAY after startTask the instruction is sent
\* ------------------------- sessions with createSubtask calls interleaved
\* one configuration where the total and the children limit bind, one where
\* the limit on siblings of one mode binds
InterleavedLimits ==
    {[maxDepth |-> MaxDepth, maxChildren |-> MaxChildren,
      maxTotalTasks |-> IlvMaxTotalTasks],
     [maxDepth |-> LimMaxDepth, maxChildren |-> LimMaxChildren,
      maxTotalTasks |-> LimMaxTotalTasks]}

InterleavedInit ==
    /\ tasks = <<>>
    /\ taskCounter = 0
    /\ stack = <<>>
    /\ gooseProcesses = {}
    /\ proc = <<>>
    /\ stdin = <<>>
    /\ progress = <<>>
    /\ totalTaskCount = 0
    /\ sessionExpired = FALSE
    /\ taskLimits \in InterleavedLimits
    /\ stackMaxDepth = LimMaxTotalTasks
    /\ completionWait = "none"
    /\ instruction = <<>>
    /\ suspended = {}
    /\ ComponentsUnused

\* a worker's new_task directive: the stdout callback runs createSubtask up
\* to its first await, then updateProgressFromOutput
WorkerNewTaskBegin ==
    \E taskId \in DOMAIN tasks, mode \in SiblingModes :
        /\ proc[taskId] \in {"alive", "killed"}
        /\ Commit(UpdateProgressFromOutput(
                    CreateSubtaskBegin(State, taskId, mode), taskId))

\* the file write of a ledger entry is done
ResumeAfterPause ==
    \E c \in suspended :
        /\ c.at = "pauseTask"
        /\ Commit(CreateSubtaskRecord(State, c))

\* the log directory is there
ResumeStartTask ==
    \E c \in suspended :
        /\ c.at = "startTask"
        /\ Commit(CreateSubtaskStart(State, c))

InterleavedNext ==
    \/ DoCreateRootTask
    \/ WorkerNewTaskBegin
    \/ ResumeAfterPause
    \/ ResumeStartTask

InterleavedSpec == InterleavedInit /\ [][InterleavedNext]_vars

\* ------------- sessions whose TaskStack is shallower than the total limit
\* as in the constructor, where STACK_MAX_DEPTH is 10 and MAX_TOTAL_TASKS 50
ShallowInit ==
    /\ tasks = <<>>
    /\ taskCounter = 0
    /\ stack = <<>>
    /\ gooseProcesses = {}
    /\ proc = <<>>
    /\ stdin = <<>>
    /\ progress = <<>>
    /\ totalTaskCount = 0
    /\ sessionExpired = FALSE
    /\ taskLimits = [maxDepth |-> MaxDepth, maxChildren |-> MaxChildren,
                     maxTotalTasks |-> MaxTotalTasks]
    /\ stackMaxDepth = ShallowStackDepth
    /\ completionWait = "none"
    /\ instruction = <<>>
    /\ suspended = {}
    /\ ComponentsUnused

ShallowNext ==
    \/ DoCreateRootTask
    \/ DoCreateSubtask
    \/ DoCompleteTask
    \/ WorkerExit

ShallowSpec == ShallowInit /\ [][ShallowNext]_vars

InstructionTimer ==
    \E taskId \in DOMAIN tasks, writeThrows \in BOOLEAN :
        /\ instruction[taskId] = "scheduled"
        /\ Commit(SendInitialInstruction(State, taskId, writeThrows))

InstructionNext ==
    \/ DoCreateRootTask
    \/ DoCreateSubtask
    \/ DoCompleteTask
    \/ InstructionTimer
    \/ WorkerExit
    \/ WorkerError

InstructionSpec == ApiInit /\ [][InstructionNext]_vars

\* --------------------------------------------------- a TaskStack on its own
\* T is the TaskStack: its entries (task and push timestamp, bottom first),
\* maxDepth, the clock the timestamps are read from, and of the last call the
\* events emitted, the task returned (<<>> for undefined) and whether it threw.
Called(T) ==
    [T EXCEPT !.emitted = <<>>, !.returned = <<>>, !.updated = <<>>, !.threw = FALSE]

EmitEvent(T, type, task) ==
    [T EXCEPT !.emitted = Append(@, [type |-> type, taskId |-> task.id,
                                     parentId |-> task.parentId])]

\* mutant: the depth is not checked
Push_Unchecked(T, task) ==
    LET T1 == [Called(T) EXCEPT !.clock = @ + 1]
        T2 == [T1 EXCEPT !.stack = Append(@, [task |-> task, timestamp |-> T1.clock])]
    IN EmitEvent(T2, "task_created", task)

Push(T, task) ==
    IF Len(T.stack) >= T.maxDepth
    THEN [Called(T) EXCEPT !.threw = TRUE]
    ELSE LET T1 == [Called(T) EXCEPT !.clock = @ + 1]
             T2 == [T1 EXCEPT !.stack = Append(@, [task |-> task,
                                                   timestamp |-> T1.clock])]
         IN EmitEvent(T2, "task_created", task)

\* mutant: the bottom entry is taken
Pop_Bottom(T) ==
    IF Len(T.stack) = 0 THEN Called(T)
    ELSE [Called(T) EXCEPT !.stack = Tail(@), !.returned = <<T.stack[1].task>>]

Pop(T) ==
    IF Len(T.stack) = 0 THEN Called(T)
    ELSE [Called(T) EXCEPT !.stack = SubSeq(@, 1, Len(@) - 1),
                           !.returned = <<T.stack[Len(T.stack)].task>>]

Peek(T) ==
    IF Len(T.stack) = 0 THEN Called(T)
    ELSE [Called(T) EXCEPT !.returned = <<T.stack[Len(T.stack)].task>>]

GetCurrentTask(T) == Peek(T)

\* findIndex: the first entry with that task id, 0 when there is none
FindIndex(T, taskId) ==
    IF \E i \in 1..Len(T.stack) : T.stack[i].task.id = taskId
    THEN CHOOSE i \in 1..Len(T.stack) :
            /\ T.stack[i].task.id = taskId
            /\ \A j \in 1..(i-1) : T.stack[j].task.id # taskId
    ELSE 0

\* mutant: the entry is taken from the top, wherever the id was found
RemoveTask_Top(T, taskId) ==
    LET index == FindIndex(T, taskId)
    IN IF index = 0 THEN Called(T)
       ELSE [Called(T) EXCEPT !.stack = SubSeq(@, 1, Len(@) - 1),
                              !.returned = <<T.stack[Len(T.stack)].task>>]

RemoveTask(T, taskId) ==
    LET index == FindIndex(T, taskId)
    IN IF index = 0 THEN Called(T)
       ELSE [Called(T) EXCEPT !.stack = SeqRemoveAt(@, index),
                              !.returned = <<T.stack[index].task>>]

\* the event type of a status, Undefined for null
GetEventTypeFromStatus(status) ==
    CASE status = "paused" -> "task_paused"
      [] status = "running" -> "task_resumed"
      [] status = "completed" -> "task_completed"
      [] status = "failed" -> "task_failed"
      [] OTHER -> Undefined

\* mutant: the event is emitted only when the status differs from the old one
UpdateTask_OnChangeOnly(T, taskId, updates) ==
    LET index == FindIndex(T, taskId)
    IN IF index = 0 THEN [Called(T) EXCEPT !.updated = <<FALSE>>]
       ELSE LET T1 == [Called(T) EXCEPT !.updated = <<TRUE>>,
                            !.stack[index].task = Merge(@, updates)]
            IN IF /\ "status" \in DOMAIN updates
                  /\ updates.status # T.stack[index].task.status
                  /\ GetEventTypeFromStatus(updates.status) # Undefined
               THEN EmitEvent(T1, GetEventTypeFromStatus(updates.status),
                              T1.stack[index].task)
               ELSE T1

\* find: the first entry with that task id; the boolean result is in updated
UpdateTask(T, taskId, updates) ==
    LET index == FindIndex(T, taskId)
    IN IF index = 0 THEN [Called(T) EXCEPT !.updated = <<FALSE>>]
       ELSE LET T1 == [Called(T) EXCEPT !.updated = <<TRUE>>,
                            !.stack[index].task = Merge(@, updates)]
            IN IF /\ "status" \in DOMAIN updates
                  /\ GetEventTypeFromStatus(updates.status) # Undefined
               THEN EmitEvent(T1, GetEventTypeFromStatus(updates.status),
                              T1.stack[index].task)
               ELSE T1

\* the partials given to updateTask: one without a status, one per status
TsUpdates ==
    {[isPaused |-> TRUE]} \cup
    {[status |-> s] : s \in {"pending", "running", "paused", "completed", "failed"}}

\* the tasks given to push: two ids, with and without a parent
TsTasks ==
    {[id |-> i, status |-> "pending", parentId |-> p] :
        i \in 1..TsMaxId, p \in {NoParent, TsMaxId + 1}}

StackInit ==
    /\ taskStack \in {NewTaskStack(m) : m \in 1..TsMaxDepth}
    /\ OrchestratorUnused
    /\ HandlerUnused

DoPush ==
    \E task \in TsTasks :
        /\ taskStack.clock < TsMaxPushes
        /\ Commit([State EXCEPT !.taskStack = Push(taskStack, task)])

DoPop == Commit([State EXCEPT !.taskStack = Pop(taskStack)])

DoPeek == Commit([State EXCEPT !.taskStack = Peek(taskStack)])

DoGetCurrentTask == Commit([State EXCEPT !.taskStack = GetCurrentTask(taskStack)])

DoRemoveTask ==
    \E taskId \in 1..(TsMaxId + 1) :
        Commit([State EXCEPT !.taskStack = RemoveTask(taskStack, taskId)])

DoUpdateTask ==
    \E taskId \in 1..(TsMaxId + 1), updates \in TsUpdates :
        Commit([State EXCEPT !.taskStack = UpdateTask(taskStack, taskId, updates)])

StackNext ==
    \/ DoPush
    \/ DoPop
    \/ DoPeek
    \/ DoGetCurrentTask
    \/ DoRemoveTask

StackSpec == StackInit /\ [][StackNext]_vars

\* stacks whose tasks change status
UpdateNext ==
    \/ DoPush
    \/ DoUpdateTask
    \/ DoPop

UpdateSpec == StackInit /\ [][UpdateNext]_vars

\* ------------------------------------------ an OrchestrationHandler on its own
\* A text is a sequence of tokens with blanks between them: keywords, braces,
\* commas, "key: value" parameters, tags with their content, and words.  A
\* parameter value is the sequence of the tokens it is made of, <<>> when it
\* is undefined or empty.
ToLowerCase(tok) == IF tok = "NEW_TASK" THEN "new_task" ELSE tok

IsParam(tok) == tok \in {"mode: coder", "instruction: fix", "result: ok"}

ParamKey(tok) ==
    CASE tok = "mode: coder" -> "mode"
      [] tok = "instruction: fix" -> "instruction"
      [] tok = "result: ok" -> "result"

ParamValue(tok) ==
    CASE tok = "mode: coder" -> "coder"
      [] tok = "instruction: fix" -> "fix"
      [] tok = "result: ok" -> "ok"

\* content of <mode>..</mode>, <instruction>..</instruction>, <result>..</result>
TagValue(tok) ==
    CASE tok = "<mode>coder</mode>" -> "coder"
      [] tok = "<instruction>fix</instruction>" -> "fix"
      [] tok = "<result>ok</result>" -> "ok"

\* first position from `from` on that holds tok, 0 when there is none
IndexOfFrom(text, tok, from) ==
    IF \E i \in from..Len(text) : text[i] = tok
    THEN CHOOSE i \in from..Len(text) :
            text[i] = tok /\ \A j \in from..(i-1) : text[j] # tok
    ELSE 0

\* the leftmost of the positions, 0 when there is none
Leftmost(positions) ==
    IF positions = {} THEN 0
    ELSE CHOOSE i \in positions : \A j \in positions : i <= j

\* NEW_TASK and ATTEMPT_COMPLETION, flags gi: the keyword in any case, "{",
\* anything without "}" and "}".  The blank after "{" counts for [^}]+.
InlineAt(tool, text, i) ==
    /\ ToLowerCase(text[i]) = tool
    /\ i + 1 <= Len(text)
    /\ text[i+1] = "{"
    /\ IndexOfFrom(text, "}", i + 2) # 0

NewTaskAt(text, i) == InlineAt("new_task", text, i)

AttemptCompletionAt(text, i) == InlineAt("attempt_completion", text, i)

InlineEnd(text, i) == IndexOfFrom(text, "}", i + 2)

\* XML_NEW_TASK without the optional <tools> and <maxTurns>
XmlNewTaskAt(text, i) ==
    /\ text[i] = "<new_task>"
    /\ i + 3 <= Len(text)
    /\ text[i+1] = "<mode>coder</mode>"
    /\ text[i+2] = "<instruction>fix</instruction>"
    /\ text[i+3] = "</new_task>"

\* XML_COMPLETION without the optional <summary>
XmlCompletionAt(text, i) ==
    /\ text[i] = "<attempt_completion>"
    /\ i + 2 <= Len(text)
    /\ text[i+1] = "<result>ok</result>"
    /\ text[i+2] = "</attempt_completion>"

\* paramStr.split(',')
RECURSIVE Split(_)
Split(body) ==
    LET c == IndexOfFrom(body, ",", 1)
    IN IF c = 0 THEN <<body>>
       ELSE <<SubSeq(body, 1, c - 1)>> \o Split(SubSeq(body, c + 1, Len(body)))

\* one line of parseToolParameters: the key is the text before the first
\* colon, the value the rest of the line
LineKey(line) ==
    LET k == Leftmost({i \in 1..Len(line) : IsParam(line[i])})
    IN IF k = 1 THEN ParamKey(line[1]) ELSE "other"

LineValue(line) ==
    LET k == Leftmost({i \in 1..Len(line) : IsParam(line[i])})
    IN IF k = 0 THEN <<>>
       ELSE <<ParamValue(line[k])>> \o SubSeq(line, k + 1, Len(line))

HasColon(line) == \E i \in 1..Len(line) : IsParam(line[i])

RECURSIVE AssignLines(_, _)
AssignLines(params, lines) ==
    IF lines = <<>> THEN params
    ELSE LET line == Head(lines)
             next == IF HasColon(line) /\ LineKey(line) \in DOMAIN params
                     THEN [params EXCEPT ![LineKey(line)] = LineValue(line)]
                     ELSE params
         IN AssignLines(next, Tail(lines))

\* the keys parseOutput reads; other keys are set and never read
ParseToolParameters(body) ==
    AssignLines([mode |-> <<>>, instruction |-> <<>>, result |-> <<>>], Split(body))

NewTaskCall(mode, instr) ==
    [type |-> "new_task",
     parameters |-> [mode |-> mode, instruction |-> instr, tools |-> Undefined,
                     maxTurns |-> MAX_TURNS]]

AttemptCompletionCall(result) ==
    [type |-> "attempt_completion",
     parameters |-> [result |-> result, summary |-> Undefined]]

\* mutant: the scan ends at the first block that lacks a parameter
RECURSIVE NewTaskMatches_StopsAtMalformed(_, _)
NewTaskMatches_StopsAtMalformed(text, from) ==
    LET i == Leftmost({k \in from..Len(text) : NewTaskAt(text, k)})
    IN IF i = 0 THEN <<>>
       ELSE LET end == InlineEnd(text, i)
                params == ParseToolParameters(SubSeq(text, i + 2, end - 1))
            IN IF params.mode # <<>> /\ params.instruction # <<>>
               THEN <<[index |-> i,
                       toolCall |-> NewTaskCall(params.mode, params.instruction)]>>
                    \o NewTaskMatches_StopsAtMalformed(text, end + 1)
               ELSE <<>>

\* the exec loops: the matches from lastIndex on, each with match.index
RECURSIVE NewTaskMatches(_, _)
NewTaskMatches(text, from) ==
    LET i == Leftmost({k \in from..Len(text) : NewTaskAt(text, k)})
    IN IF i = 0 THEN <<>>
       ELSE LET end == InlineEnd(text, i)
                params == ParseToolParameters(SubSeq(text, i + 2, end - 1))
                found == IF params.mode # <<>> /\ params.instruction # <<>>
                         THEN <<[index |-> i,
                                 toolCall |-> NewTaskCall(params.mode, params.instruction)]>>
                         ELSE <<>>
            IN found \o NewTaskMatches(text, end + 1)

RECURSIVE AttemptCompletionMatches(_, _)
AttemptCompletionMatches(text, from) ==
    LET i == Leftmost({k \in from..Len(text) : AttemptCompletionAt(text, k)})
    IN IF i = 0 THEN <<>>
       ELSE LET end == InlineEnd(text, i)
                params == ParseToolParameters(SubSeq(text, i + 2, end - 1))
                found == IF params.result # <<>>
                         THEN <<[index |-> i,
                                 toolCall |-> AttemptCompletionCall(params.result)]>>
                         ELSE <<>>
            IN found \o AttemptCompletionMatches(text, end + 1)

RECURSIVE XmlNewTaskMatches(_, _)
XmlNewTaskMatches(text, from) ==
    LET i == Leftmost({k \in from..Len(text) : XmlNewTaskAt(text, k)})
    IN IF i = 0 THEN <<>>
       ELSE <<[index |-> i,
               toolCall |-> NewTaskCall(<<TagValue(text[i+1])>>,
                                        <<TagValue(text[i+2])>>)]>>
            \o XmlNewTaskMatches(text, i + 4)

RECURSIVE XmlCompletionMatches(_, _)
XmlCompletionMatches(text, from) ==
    LET i == Leftmost({k \in from..Len(text) : XmlCompletionAt(text, k)})
    IN IF i = 0 THEN <<>>
       ELSE <<[index |-> i,
               toolCall |-> AttemptCompletionCall(<<TagValue(text[i+1])>>)]>>
            \o XmlCompletionMatches(text, i + 3)

\* the tool calls in the order parseOutput pushes them, with their positions
ParseOutputMatches(text) ==
    NewTaskMatches(text, 1) \o AttemptCompletionMatches(text, 1)
        \o XmlNewTaskMatches(text, 1) \o XmlCompletionMatches(text, 1)

ParseOutput(text) ==
    LET ms == ParseOutputMatches(text)
    IN [k \in 1..Len(ms) |-> ms[k].toolCall]

\* mutant: the keyword alone counts
HasOrchestrationTools_AnyKeyword(text) ==
    \E i \in 1..Len(text) :
        text[i] \in {"new_task", "attempt_completion", "<new_task>", "<attempt_completion>"}

HasOrchestrationTools(text) ==
    \/ \E i \in 1..(Len(text) - 1) :
          text[i] \in {"new_task", "attempt_completion"} /\ text[i+1] = "{"
    \/ \E i \in 1..Len(text) : text[i] \in {"<new_task>", "<attempt_completion>"}

\* the pieces the texts are made of
Fragments ==
    { <<"new_task", "{", "mode: coder", ",", "instruction: fix", "}">>,
      <<"NEW_TASK", "{", "mode: coder", ",", "instruction: fix", "}">>,
      <<"attempt_completion", "{", "result: ok", "}">>,
      <<"<new_task>", "<mode>coder</mode>", "<instruction>fix</instruction>",
        "</new_task>">>,
      <<"<attempt_completion>", "<result>ok</result>", "</attempt_completion>">>,
      <<"new_task", "{", "mode: coder", "}">>,
      <<"attempt_completion", "{", "}">>,
      <<"attempt_completion", "{">>,
      <<"<new_task>">>,
      <<"new_task">>,
      <<"done">> }

RECURSIVE Texts(_)
Texts(n) ==
    IF n = 0 THEN {<<>>}
    ELSE Texts(n - 1) \cup {t \o f : t \in Texts(n - 1), f \in Fragments}

\* the type guards: the parameters are those of the call's type
IsNewTaskParameters(params) == {"mode", "instruction"} \subseteq DOMAIN params

IsAttemptCompletionParameters(params) == "result" \in DOMAIN params

\* handleNewTask, handleAttemptCompletion: the request is emitted, a listener
\* of an event type in `throwing` throws, otherwise the acknowledgement is
\* returned.  R holds the responses and the events emitted so far.
HandleNewTask(R, taskId, params, throwing) ==
    LET R1 == [R EXCEPT !.emitted = Append(@, [event |-> "new_task", taskId |-> taskId,
                                               mode |-> params.mode,
                                               instruction |-> params.instruction])]
    IN IF "new_task" \in throwing
       THEN [R1 EXCEPT !.threw = TRUE]
       ELSE [R1 EXCEPT !.responses = Append(@,
                [line |-> "Task delegation request sent", mode |-> params.mode,
                 instruction |-> params.instruction])]

HandleAttemptCompletion(R, taskId, params, throwing) ==
    LET R1 == [R EXCEPT !.emitted = Append(@, [event |-> "attempt_completion",
                                               taskId |-> taskId,
                                               result |-> params.result])]
    IN IF "attempt_completion" \in throwing
       THEN [R1 EXCEPT !.threw = TRUE]
       ELSE [R1 EXCEPT !.responses = Append(@,
                [line |-> "Task completed successfully", result |-> params.result])]

\* the body of the try block for one call
ExecuteToolCall(R, taskId, toolCall, throwing) ==
    IF toolCall.type = "new_task" /\ IsNewTaskParameters(toolCall.parameters)
    THEN HandleNewTask(R, taskId, toolCall.parameters, throwing)
    ELSE IF toolCall.type = "attempt_completion"
            /\ IsAttemptCompletionParameters(toolCall.parameters)
    THEN HandleAttemptCompletion(R, taskId, toolCall.parameters, throwing)
    ELSE [R EXCEPT !.responses = Append(@, [line |-> "Invalid tool call",
                                            type |-> toolCall.type])]

\* mutant: the try block is around the loop
RECURSIVE ProcessLoop_StopsAtThrow(_, _, _, _)
ProcessLoop_StopsAtThrow(R, taskId, calls, throwing) ==
    IF calls = <<>> THEN R
    ELSE LET R1 == ExecuteToolCall(R, taskId, Head(calls), throwing)
         IN IF R1.threw
            THEN [R1 EXCEPT !.threw = FALSE,
                            !.responses = Append(@, [line |-> "Error executing",
                                                     type |-> Head(calls).type])]
            ELSE ProcessLoop_StopsAtThrow(R1, taskId, Tail(calls), throwing)

\* for (const toolCall of toolCalls) try .. catch ..
RECURSIVE ProcessLoop(_, _, _, _)
ProcessLoop(R, taskId, calls, throwing) ==
    IF calls = <<>> THEN R
    ELSE LET R1 == ExecuteToolCall(R, taskId, Head(calls), throwing)
             R2 == IF R1.threw
                   THEN [R1 EXCEPT !.threw = FALSE,
                                   !.responses = Append(@, [line |-> "Error executing",
                                                            type |-> Head(calls).type])]
                   ELSE R1
         IN ProcessLoop(R2, taskId, Tail(calls), throwing)

ProcessToolCalls_StopsAtThrow(taskId, calls, throwing) ==
    ProcessLoop_StopsAtThrow([responses |-> <<>>, emitted |-> <<>>, threw |-> FALSE],
                             taskId, calls, throwing)

ProcessToolCalls(taskId, calls, throwing) ==
    ProcessLoop([responses |-> <<>>, emitted |-> <<>>, threw |-> FALSE],
                taskId, calls, throwing)

ToolTypes == {"new_task", "attempt_completion"}

ParseInit ==
    /\ output \in Texts(MaxFragments)
    /\ toolCalls = <<>>
    /\ responses = <<>>
    /\ detected = FALSE
    /\ called = {}
    /\ TaskStackUnused
    /\ OrchestratorUnused

DoHasOrchestrationTools ==
    Commit([State EXCEPT !.detected = HasOrchestrationTools(output),
                         !.called = @ \cup {"hasOrchestrationTools"}])

DoParseOutput ==
    Commit([State EXCEPT !.toolCalls = ParseOutput(output),
                         !.called = @ \cup {"parseOutput"}])

\* the calls are those parseOutput returned; the listeners of the event
\* types in `throwing` throw
DoProcessToolCalls ==
    \E throwing \in SUBSET ToolTypes :
        /\ "parseOutput" \in called
        /\ Commit([State EXCEPT
                     !.responses = ProcessToolCalls("task", toolCalls, throwing).responses,
                     !.called = @ \cup {"processToolCalls"}])

ParseNext ==
    \/ DoHasOrchestrationTools
    \/ DoParseOutput
    \/ DoProcessToolCalls

ParseSpec == ParseInit /\ [][ParseNext]_vars

\* ---------------------------------------------- a ProgressTracker on its own
\* entries.reduce((sum, entry) => sum + entry.progress, 0) over the records
\* of the agents in `agents`
RECURSIVE TotalProgress(_, _)
TotalProgress(S, agents) ==
    IF agents = {} THEN 0
    ELSE LET a == CHOOSE x \in agents : TRUE
         IN S.progress[a].progress + TotalProgress(S, agents \ {a})

\* mutant: the quotient is cut to an integer
GetOverallProgress_Truncated(S) ==
    LET n == Cardinality(DOMAIN S.progress)
    IN IF n = 0 THEN [numerator |-> 0, denominator |-> 1]
       ELSE [numerator |-> TotalProgress(S, DOMAIN S.progress) \div n,
             denominator |-> 1]

\* the number returned is numerator / denominator
GetOverallProgress(S) ==
    LET n == Cardinality(DOMAIN S.progress)
    IN IF n = 0 THEN [numerator |-> 0, denominator |-> 1]
       ELSE [numerator |-> TotalProgress(S, DOMAIN S.progress), denominator |-> n]

\* mutant: every() alone, which holds of no records
IsAllCompleted_EveryOnly(S) ==
    \A a \in DOMAIN S.progress : S.progress[a].status \in {"completed", "failed"}

IsAllCompleted(S) ==
    /\ Cardinality(DOMAIN S.progress) > 0
    /\ \A a \in DOMAIN S.progress : S.progress[a].status \in {"completed", "failed"}

AgentStatuses == {"running", "paused", "waiting", "completed", "failed"}

ProgressValues == {0, 50, 100}

\* the partial entries given to updateProgress
Partials ==
    {[status |-> st] : st \in AgentStatuses}
        \cup {[progress |-> p] : p \in ProgressValues}
        \cup {[status |-> st, progress |-> p] : st \in AgentStatuses, p \in ProgressValues}
        \cup {[agentName |-> "coder", status |-> st, progress |-> p] :
                    st \in AgentStatuses, p \in ProgressValues}

TrackerInit ==
    /\ OrchestratorUnused
    /\ ComponentsUnused

DoUpdateProgress ==
    \E agentId \in 1..MaxAgents, entry \in Partials :
        Commit(UpdateProgress(State, agentId, entry))

TrackerNext ==
    \/ DoUpdateProgress

TrackerSpec == TrackerInit /\ [][TrackerNext]_vars

\* ------------------------------------------- sessions that reach the limits
\* A SafetyManager constructed with limits that bind before the total does;
\* the workers stay alive, the tasks change status through createSubtask and
\* stopTask.
LimitInit ==
    /\ tasks = <<>>
    /\ taskCounter = 0
    /\ stack = <<>>
    /\ gooseProcesses = {}
    /\ proc = <<>>
    /\ stdin = <<>>
    /\ progress = <<>>
    /\ totalTaskCount = 0
    /\ sessionExpired = FALSE
    /\ taskLimits \in {[maxDepth |-> LimMaxDepth, maxChildren |-> c,
                         maxTotalTasks |-> LimMaxTotalTasks] :
                            c \in {LimMaxChildren - 2, LimMaxChildren}}
    /\ stackMaxDepth = LimMaxTotalTasks
    /\ completionWait = "none"
    /\ instruction = <<>>
    /\ suspended = {}
    /\ ComponentsUnused

DoCreateSiblingSubtask ==
    \E parentId \in CallerIds, mode \in SiblingModes :
        Commit(CreateSubtask(State, parentId, mode))

LimitNext ==
    \/ DoCreateRootTask
    \/ DoCreateSiblingSubtask
    \/ DoStopTask

LimitSpec == LimitInit /\ [][LimitNext]_vars

\* ---------------------------------------------------------------- claims
Children(t) == SeqRange(tasks[t].children)
OnStack(t) == t \in SeqRange(stack)
HasParent(t) == tasks[t].parentId # NoParent
\* the steps that run completeTask(c, r): the call and the directive
CompleteTaskStep(c, r) ==
    \/ Commit(CompleteTask(State, c, r))
    \/ /\ proc[c] \in {"alive", "killed"}
       /\ Commit(OnAttemptCompletionOutput(State, c, r))
\* the step in which the worker of c exits with the given code
ExitStep(c, code) ==
    /\ proc[c] \in {"alive", "killed", "errored"}
    /\ proc[c] = "errored" => code # 0
    /\ Commit(OnExit([State EXCEPT !.proc[c] = "exited"], c, code))
FailureNotice(p, code) ==
    GenerateCompletionMessage(p, <<"Subtask failed with exit code:", CodeText(code)>>)

\* C1: the number of tasks registered in the task map never exceeds
\* maxTotalTasks, whatever the hierarchy and the statuses of the tasks.
C1_TaskCountWithinLimit == Cardinality(DOMAIN tasks) <= taskLimits.maxTotalTasks

\* a creation was attempted with maxTotalTasks tasks registered, and rejected
C1_Witness ==
    /\ Cardinality(DOMAIN tasks) = taskLimits.maxTotalTasks
    /\ totalTaskCount = taskLimits.maxTotalTasks + 1

\* C2: once a task's status is completed or failed, no step changes it.
C2_TerminalStatusIsFinal ==
    [][\A t \in DOMAIN tasks :
          tasks[t].status \in Terminal => tasks'[t].status = tasks[t].status]_vars

\* C3: a task becomes paused only in a step in which it gains a child, and a
\* paused task leaves paused only when the child it delegated to (its last
\* child) becomes completed or failed and it resumes, or when it is stopped.
C3_PausedOnlyByDelegation ==
    [][\A t \in DOMAIN tasks :
          /\ (tasks[t].status # "paused" /\ tasks'[t].status = "paused")
                => Len(tasks'[t].children) = Len(tasks[t].children) + 1
          /\ (tasks[t].status = "paused" /\ tasks'[t].status # "paused")
                => \/ /\ tasks'[t].status = "running"
                      /\ tasks[t].children # <<>>
                      /\ LET c == tasks[t].children[Len(tasks[t].children)] IN
                            /\ tasks[c].status \notin Terminal
                            /\ tasks'[c].status \in Terminal
                   \/ /\ tasks'[t].status = "failed"
                      /\ t \notin gooseProcesses'
                      /\ t \notin SeqRange(stack')]_vars

\* C4: isPaused implies status paused and a child that is not yet completed
\* or failed.
C4_IsPausedMeansWaiting ==
    \A t \in DOMAIN tasks :
        tasks[t].isPaused =>
            /\ tasks[t].status = "paused"
            /\ \E c \in Children(t) : tasks[c].status \notin Terminal

\* C5: no task is running while one of its children is pending, running or
\* paused.
C5_BoomerangExclusivity ==
    \A t \in DOMAIN tasks :
        tasks[t].status = "running" =>
            \A c \in Children(t) : tasks[c].status \notin Active

\* C6: a step of completeTask(c, r) for a child c with a parent leaves c
\* completed with result r and off the stack, and its parent running with
\* isPaused false.
C6_CompleteTaskPostcondition ==
    [][\A c \in DOMAIN tasks, r \in Results :
          (HasParent(c) /\ CompleteTaskStep(c, r)) =>
              /\ tasks'[c].status = "completed"
              /\ tasks'[c].result = r
              /\ tasks'[tasks[c].parentId].status = "running"
              /\ ~tasks'[tasks[c].parentId].isPaused
              /\ c \notin SeqRange(stack')]_vars

\* a completed child off the stack next to its running parent
C6_Witness ==
    \E c \in DOMAIN tasks :
        /\ HasParent(c)
        /\ tasks[c].status = "completed"
        /\ tasks[c].result \in Results
        /\ ~OnStack(c)
        /\ tasks[tasks[c].parentId].status = "running"
        /\ ~tasks[tasks[c].parentId].isPaused

\* C7: when a child of a paused parent completes with result r, the parent
\* goes back to running and, if its worker is bound with a writable input,
\* a message containing r is written to that input.
C7_DelegationRoundTrip ==
    [][\A c \in DOMAIN tasks, r \in Results :
          (/\ HasParent(c)
           /\ tasks[tasks[c].parentId].status = "paused"
           /\ CompleteTaskStep(c, r)) =>
              LET p == tasks[c].parentId IN
              /\ tasks'[p].status = "running"
              /\ (p \in gooseProcesses /\ StdinWritable(State, p))
                    => /\ r \in SeqRange(stdin'[p])
                       /\ stdin'[p][1] = "[Subtask completed] Result:"]_vars

\* a root whose bound worker got the result of its completed child
C7_Witness ==
    \E c \in DOMAIN tasks :
        /\ HasParent(c)
        /\ tasks[tasks[c].parentId].parentId = NoParent
        /\ tasks[c].status = "completed"
        /\ tasks[c].result \in SeqRange(stdin[tasks[c].parentId])
        /\ tasks[c].parentId \in gooseProcesses
        /\ tasks[tasks[c].parentId].status = "running"

\* C8: once every child of a task is completed or failed and every child's
\* worker has exited, the task is not left paused.
C8_ParentResumedAfterChildren ==
    \A p \in DOMAIN tasks :
        (/\ Children(p) # {}
         /\ \A c \in Children(p) :
                tasks[c].status \in Terminal /\ proc[c] = "exited")
            => tasks[p].status # "paused"

\* C9 as stated: an abnormal exit of the worker of a child that is not
\* completed leaves the child failed and its parent running with isPaused
\* false, and the failure description is written to the parent worker's
\* input.
C9_AbnormalExitForwardsAlways ==
    [][\A c \in DOMAIN tasks, code \in ExitCodes \ {0} :
          (HasParent(c) /\ tasks[c].status # "completed" /\ ExitStep(c, code)) =>
              LET p == tasks[c].parentId IN
              /\ tasks'[c].status = "failed"
              /\ tasks'[p].status = "running"
              /\ ~tasks'[p].isPaused
              /\ stdin'[p] = FailureNotice(p, code)]_vars

\* C9 amended: as above, the failure description being written when the
\* parent's worker is still bound with a writable input.
C9_AbnormalExitResumesParent ==
    [][\A c \in DOMAIN tasks, code \in ExitCodes \ {0} :
          (HasParent(c) /\ tasks[c].status # "completed" /\ ExitStep(c, code)) =>
              LET p == tasks[c].parentId IN
              /\ tasks'[c].status = "failed"
              /\ tasks'[p].status = "running"
              /\ ~tasks'[p].isPaused
              /\ (p \in gooseProcesses /\ StdinWritable(State, p))
                    => stdin'[p] = FailureNotice(p, code)]_vars

\* a failed child whose worker has exited, its parent running and told so
C9_Witness ==
    \E c \in DOMAIN tasks :
        /\ HasParent(c)
        /\ tasks[c].status = "failed"
        /\ proc[c] = "exited"
        /\ tasks[tasks[c].parentId].status = "running"
        /\ ~tasks[tasks[c].parentId].isPaused
        /\ tasks[c].parentId \in gooseProcesses
        /\ stdin[tasks[c].parentId] = FailureNotice(tasks[c].parentId, 1)

\* C10: every task on the stack has status pending, running or paused.
C10_StackHoldsActiveTasks ==
    \A t \in SeqRange(stack) : tasks[t].status \in Active

\* the entries of a task's children list that name a task of mode m
SameModeChildren(t, m) ==
    {i \in 1..Len(tasks[t].children) : tasks[tasks[t].children[i]].mode = m}
\* a creation was rejected by validateTaskCreation in the step before
RejectionSeen == totalTaskCount = Cardinality(DOMAIN tasks) + 1

\* C11: a createRootTask or createSubtask call that validateTaskCreation
\* rejects throws the validation error and leaves the task map (with every
\* parent's children, status and isPaused), the stack, the progress ledger
\* and the worker bindings as they were.
C11_RejectedCreationHasNoEffect ==
    [][/\ \A mode \in RootModes :
            (ValidateError(State, NoParent, mode) # "none"
                /\ Commit(CreateRootTask(State, mode)))
            => /\ CreateRootTaskError(State, mode) = ValidateError(State, NoParent, mode)
               /\ UNCHANGED <<tasks, stack, progress, gooseProcesses, proc, stdin>>
       /\ \A parentId \in DOMAIN tasks, mode \in SiblingModes :
            (ValidateError(State, parentId, mode) # "none"
                /\ Commit(CreateSubtask(State, parentId, mode)))
            => /\ CreateSubtaskError(State, parentId, mode)
                    = ValidateError(State, parentId, mode)
               /\ UNCHANGED <<tasks, stack, progress, gooseProcesses, proc, stdin>>]_vars

\* a rejection below the total limit next to a paused parent and its child
C11_Witness ==
    /\ RejectionSeen
    /\ Cardinality(DOMAIN tasks) < taskLimits.maxTotalTasks
    /\ \E c \in DOMAIN tasks :
        /\ HasParent(c)
        /\ tasks[c].status = "running"
        /\ tasks[tasks[c].parentId].status = "paused"

\* C12: a createSubtask(parentId, request) that returns an id has registered
\* a new task under that id with that parentId, the id is the last element
\* of the parent's children, the parent is paused with isPaused true, and
\* the child is on the stack.
C12_CreateSubtaskPostcondition ==
    [][\A parentId \in DOMAIN tasks, mode \in SiblingModes :
          (CreateSubtaskError(State, parentId, mode) = "none"
              /\ Commit(CreateSubtask(State, parentId, mode)))
          => LET id == CreateSubtaskReturn(State, parentId, mode) IN
             /\ id \notin DOMAIN tasks
             /\ id \in DOMAIN tasks'
             /\ tasks'[id].parentId = parentId
             /\ tasks'[parentId].children # <<>>
             /\ tasks'[parentId].children[Len(tasks'[parentId].children)] = id
             /\ tasks'[parentId].status = "paused"
             /\ tasks'[parentId].isPaused
             /\ id \in SeqRange(stack')]_vars

\* a second child, last in the list of its paused parent and on the stack
C12_Witness ==
    \E c \in DOMAIN tasks :
        /\ HasParent(c)
        /\ Len(tasks[tasks[c].parentId].children) = 2
        /\ tasks[tasks[c].parentId].children[2] = c
        /\ tasks[tasks[c].parentId].status = "paused"
        /\ tasks[tasks[c].parentId].isPaused
        /\ OnStack(c)
        /\ c = taskCounter

\* C13: a task without parentId has depth 0; any other task's parentId names
\* a registered task and its depth is that task's depth plus 1.
C13_DepthFollowsParent ==
    \A t \in DOMAIN tasks :
        IF tasks[t].parentId = NoParent THEN tasks[t].depth = 0
        ELSE /\ tasks[t].parentId \in DOMAIN tasks
             /\ tasks[t].depth = tasks[tasks[t].parentId].depth + 1

\* a grandchild at depth 2
C13_Witness ==
    \E t \in DOMAIN tasks :
        /\ HasParent(t)
        /\ HasParent(tasks[t].parentId)
        /\ tasks[t].depth = 2

\* C14: createSubtask fails for a parent whose depth is maxDepth or more, and
\* no task has a depth above maxDepth.
C14_DepthWithinLimit ==
    [][/\ \A t \in DOMAIN tasks' : tasks'[t].depth <= taskLimits'.maxDepth
       /\ \A parentId \in DOMAIN tasks, mode \in SiblingModes :
            (tasks[parentId].depth >= taskLimits.maxDepth
                /\ Commit(CreateSubtask(State, parentId, mode)))
            => /\ CreateSubtaskError(State, parentId, mode) # "none"
               /\ tasks' = tasks]_vars

\* a root and its one child at maxDepth, after the child's request was rejected
C14_Witness ==
    /\ Cardinality(DOMAIN tasks) = 2
    /\ taskLimits.maxTotalTasks > 3
    /\ RejectionSeen
    /\ \E c \in DOMAIN tasks :
        HasParent(c) /\ tasks[c].depth = taskLimits.maxDepth

\* C15: under a parent with fewer than 3 children of mode M a child of mode M
\* is created when the other limits permit, with 3 or more the creation
\* fails, whatever the children's statuses; no parent has more than 3
\* children of one mode.
C15_SameModeSiblingLimit ==
    [][/\ \A t \in DOMAIN tasks', m \in SiblingModes :
            Cardinality({i \in 1..Len(tasks'[t].children) :
                            tasks'[tasks'[t].children[i]].mode = m}) <= 3
       /\ \A parentId \in DOMAIN tasks, mode \in SiblingModes :
            Commit(CreateSubtask(State, parentId, mode)) =>
                IF Cardinality(SameModeChildren(parentId, mode)) >= 3
                THEN /\ CreateSubtaskError(State, parentId, mode) # "none"
                     /\ tasks' = tasks
                ELSE (/\ Cardinality(DOMAIN tasks) < taskLimits.maxTotalTasks
                      /\ ~sessionExpired
                      /\ tasks[parentId].depth < taskLimits.maxDepth
                      /\ Len(tasks[parentId].children) < taskLimits.maxChildren
                      /\ Len(stack) < stackMaxDepth)
                     => /\ CreateSubtaskError(State, parentId, mode) = "none"
                        /\ DOMAIN tasks' = DOMAIN tasks \cup {taskCounter + 1}
                        /\ tasks'[taskCounter + 1].mode = mode
                        /\ tasks'[taskCounter + 1].parentId = parentId]_vars

\* a parent with three children of one mode, one of them stopped, and room
\* for a fourth child, after a rejected request
C15_Witness ==
    \E t \in DOMAIN tasks :
        /\ Cardinality(SameModeChildren(t, "tester")) = 3
        /\ Len(tasks[t].children) = 3
        /\ Len(tasks[t].children) < taskLimits.maxChildren
        /\ Cardinality(DOMAIN tasks) < taskLimits.maxTotalTasks
        /\ \E c \in Children(t) : tasks[c].status = "failed"
        /\ RejectionSeen

\* C16: a children list changes only by an id appended at its end, the
\* creation fails for a parent that already has maxChildren children, and
\* no list is longer than maxChildren.
C16_ChildrenGrowWithinLimit ==
    [][/\ \A t \in DOMAIN tasks :
            /\ t \in DOMAIN tasks'
            /\ Len(tasks'[t].children) \in
                    {Len(tasks[t].children), Len(tasks[t].children) + 1}
            /\ SubSeq(tasks'[t].children, 1, Len(tasks[t].children))
                    = tasks[t].children
       /\ \A t \in DOMAIN tasks' :
            Len(tasks'[t].children) <= taskLimits'.maxChildren
       /\ \A parentId \in DOMAIN tasks, mode \in SiblingModes :
            (Len(tasks[parentId].children) >= taskLimits.maxChildren
                /\ Commit(CreateSubtask(State, parentId, mode)))
            => /\ CreateSubtaskError(State, parentId, mode) # "none"
               /\ tasks' = tasks]_vars

\* a root with maxChildren children, below the sibling threshold and the
\* total, after a rejected request
C16_Witness ==
    \E t \in DOMAIN tasks :
        /\ Len(tasks[t].children) = taskLimits.maxChildren
        /\ \A m \in SiblingModes : Cardinality(SameModeChildren(t, m)) < 3
        /\ Cardinality(DOMAIN tasks) < taskLimits.maxTotalTasks
        /\ RejectionSeen

\* some task has status pending, running or paused
ActiveTaskExists == \E t \in DOMAIN tasks : tasks[t].status \in Active
\* a poll of waitForCompletion: the check at the call or at a timer tick
PollStep ==
    \/ completionWait # "pending" /\ Commit(WaitForCompletion(State))
    \/ completionWait = "pending" /\ Commit(CheckCompletion(State))

\* C17: the promise of waitForCompletion becomes resolved only in a step
\* that leaves the tasks alone and finds no pending, running or paused task,
\* and a poll that finds no such task resolves it.
C17_WaitResolvesWhenNoneActive ==
    [][/\ (completionWait # "resolved" /\ completionWait' = "resolved")
            => (~ActiveTaskExists /\ tasks' = tasks)
       /\ (PollStep /\ ~ActiveTaskExists) => completionWait' = "resolved"
       /\ (PollStep /\ ActiveTaskExists) => completionWait' = "pending"]_vars

\* the wait has resolved over a parent and a child that are both finished
C17_Witness ==
    /\ completionWait = "resolved"
    /\ \E c \in DOMAIN tasks : HasParent(c)
    /\ ~ActiveTaskExists

\* the children of every node are the nodes of the task's children list
RECURSIVE NodeMatchesTask(_)
NodeMatchesTask(node) ==
    /\ [i \in 1..Len(node.children) |-> node.children[i].id] = tasks[node.id].children
    /\ \A i \in 1..Len(node.children) :
        /\ i > 1 => node.children[i - 1].id < node.children[i].id
        /\ NodeMatchesTask(node.children[i])

\* C18: getTaskHierarchy has one top-level node for each task without
\* parentId, the children of every node are the nodes of the ids of that
\* task's children list in creation order, and the result is the same when
\* the stack and the worker bindings are different.
C18_HierarchyFollowsTaskMap ==
    LET hierarchy == GetTaskHierarchy(State) IN
    /\ Len(hierarchy) = Cardinality({t \in DOMAIN tasks : ~HasParent(t)})
    /\ {hierarchy[i].id : i \in 1..Len(hierarchy)}
            = {t \in DOMAIN tasks : ~HasParent(t)}
    /\ \A i \in 1..Len(hierarchy) : NodeMatchesTask(hierarchy[i])
    /\ hierarchy = GetTaskHierarchy([State EXCEPT !.stack = <<>>,
                                                  !.gooseProcesses = {}])

\* one root with two children, the second one finished first and off the
\* stack, the root off the stack as well
C18_Witness ==
    /\ Len(GetTaskHierarchy(State)) = 1
    /\ Len(GetTaskHierarchy(State)[1].children) = 2
    /\ GetTaskHierarchy(State)[1].children[1].status = "running"
    /\ GetTaskHierarchy(State)[1].children[2].status = "completed"
    /\ ~OnStack(GetTaskHierarchy(State)[1].children[2].id)
    /\ ~OnStack(GetTaskHierarchy(State)[1].id)

\* C19: a step of stopTask(t) leaves t failed, off the stack and without a
\* bound worker; a step of stopAllTasks leaves every task failed and the
\* stack empty.
C19_StopPostcondition ==
    [][/\ \A t \in DOMAIN tasks :
            Commit(StopTask(State, t))
            => /\ tasks'[t].status = "failed"
               /\ t \notin SeqRange(stack')
               /\ t \notin gooseProcesses'
       /\ Commit(StopAllTasks(State))
            => /\ \A t \in DOMAIN tasks' : tasks'[t].status = "failed"
               /\ stack' = <<>>]_vars

\* a parent and a child, both stopped, their workers signalled
C19_Witness ==
    /\ Cardinality(DOMAIN tasks) = 2
    /\ \A t \in DOMAIN tasks : tasks[t].status = "failed" /\ proc[t] = "killed"
    /\ stack = <<>>
    /\ gooseProcesses = {}

\* C20: for an id that is not in the task map, createSubtask with it as
\* parent and completeTask, pauseTask and stopTask with it as task throw the
\* not-found error and leave the whole state as it is.
C20_UnknownIdChangesNothing ==
    \A id \in CallerIds \ DOMAIN tasks :
        /\ \A mode \in SubtaskModes :
            /\ CreateSubtaskError(State, id, mode) = "Parent task not found"
            /\ CreateSubtask(State, id, mode) = State
        /\ TaskNotFoundError(State, id) = "Task not found"
        /\ \A result \in Results : CompleteTask(State, id, result) = State
        /\ PauseTask(State, id) = State
        /\ StopTask(State, id) = State

\* a session with bound workers, a stack and a ledger that such a call
\* could have touched
C20_Witness ==
    /\ (taskCounter + 1) \in CallerIds \ DOMAIN tasks
    /\ Cardinality(gooseProcesses) = 2
    /\ Len(stack) = 2
    /\ \E t \in DOMAIN tasks : tasks[t].status = "paused"
    /\ completionWait = "pending"

\* C21: a task whose initial instruction could not be delivered (input
\* unavailable or the write failed) is failed, it does not stay running.
C21_UndeliveredInstructionIsFatal ==
    \A t \in DOMAIN tasks :
        instruction[t] = "undelivered" => tasks[t].status = "failed"

\* C22: push fails when the stack already holds maxDepth entries, a failing
\* push leaves the stack unchanged and emits no event, a successful push puts
\* the task on top and emits task_created; the size never exceeds maxDepth.
C22_PushRespectsMaxDepth ==
    /\ Len(taskStack.stack) <= taskStack.maxDepth
    /\ \A task \in TsTasks :
          LET after == Push(taskStack, task)
          IN IF Len(taskStack.stack) = taskStack.maxDepth
             THEN /\ after.threw
                  /\ after.stack = taskStack.stack
                  /\ after.emitted = <<>>
             ELSE /\ ~after.threw
                  /\ Len(after.stack) = Len(taskStack.stack) + 1
                  /\ SubSeq(after.stack, 1, Len(taskStack.stack)) = taskStack.stack
                  /\ after.stack[Len(after.stack)].task = task
                  /\ after.emitted = <<[type |-> "task_created", taskId |-> task.id,
                                        parentId |-> task.parentId]>>

\* a push failed on a full stack
C22_Witness ==
    /\ taskStack.threw
    /\ Len(taskStack.stack) = taskStack.maxDepth
    /\ taskStack.maxDepth > 1

\* the entries pushed last among those on the stack
MostRecent(T) ==
    {i \in 1..Len(T.stack) :
        \A j \in 1..Len(T.stack) : T.stack[j].timestamp <= T.stack[i].timestamp}

\* C23: pop removes and returns the most recently pushed entry still on the
\* stack, peek and getCurrentTask return it and leave the stack as it is,
\* push then pop returns the pushed task and restores the stack, and on an
\* empty stack the three return undefined, throw nothing and change nothing.
C23_StackIsLifo ==
    LET popped == Pop(taskStack)
        peeked == Peek(taskStack)
        current == GetCurrentTask(taskStack)
    IN /\ ~popped.threw /\ ~peeked.threw /\ ~current.threw
       /\ peeked.stack = taskStack.stack
       /\ current.stack = taskStack.stack
       /\ IF taskStack.stack = <<>>
          THEN /\ popped.returned = <<>>
               /\ peeked.returned = <<>>
               /\ current.returned = <<>>
               /\ popped.stack = <<>>
          ELSE \E i \in MostRecent(taskStack) :
                 /\ popped.returned = <<taskStack.stack[i].task>>
                 /\ popped.stack = SeqRemoveAt(taskStack.stack, i)
                 /\ peeked.returned = <<taskStack.stack[i].task>>
                 /\ current.returned = <<taskStack.stack[i].task>>
       /\ \A task \in TsTasks :
             Len(taskStack.stack) < taskStack.maxDepth =>
                LET again == Pop(Push(taskStack, task))
                IN again.returned = <<task>> /\ again.stack = taskStack.stack

\* after several pushes a call returned a task and one entry is left, with
\* room for a push
C23_Witness ==
    /\ taskStack.returned # <<>>
    /\ Len(taskStack.stack) = 1
    /\ taskStack.maxDepth > 1
    /\ taskStack.clock > 2

\* C24: parseOutput returns the directives of a text in the order in which
\* they occur in the text, whatever their type and form.
C24_DirectivesInEncounterOrder ==
    LET ms == ParseOutputMatches(output)
    IN toolCalls # <<>> =>
          \A i, j \in 1..Len(ms) : i < j => ms[i].index < ms[j].index

\* a text without an inline block and without a tag form of either tool
DirectiveFree(text) ==
    \A i \in 1..Len(text) :
        /\ ~NewTaskAt(text, i)
        /\ ~AttemptCompletionAt(text, i)
        /\ ~XmlNewTaskAt(text, i)
        /\ ~XmlCompletionAt(text, i)

\* a text without the beginning of a directive: no lower-case keyword before
\* "{" and no opening tag
OpeningFree(text) ==
    /\ \A i \in 1..(Len(text) - 1) :
          ~(text[i] \in ToolTypes /\ text[i+1] = "{")
    /\ \A i \in 1..Len(text) : text[i] \notin {"<new_task>", "<attempt_completion>"}

\* C25 as stated: for a text without a directive parseOutput returns the
\* empty list and hasOrchestrationTools returns false.
C25_DirectiveFreeIsUndetected ==
    DirectiveFree(output) =>
        /\ "parseOutput" \in called => toolCalls = <<>>
        /\ "hasOrchestrationTools" \in called => ~detected

\* C25 amended: for a text without a directive parseOutput returns the empty
\* list; hasOrchestrationTools returns false for it when it does not hold the
\* beginning of a directive either.
C25_DirectiveFreeIsNotParsed ==
    DirectiveFree(output) =>
        /\ "parseOutput" \in called => toolCalls = <<>>
        /\ "hasOrchestrationTools" \in called /\ OpeningFree(output) => ~detected

\* both methods were called on a text of three pieces that names a tool and
\* holds no directive
C25_Witness ==
    /\ DirectiveFree(output)
    /\ OpeningFree(output)
    /\ {"parseOutput", "hasOrchestrationTools"} \subseteq called
    /\ Len(output) = MaxFragments
    /\ \E i \in 1..Len(output) : output[i] = "new_task"

ErrorLine(response) == response.line = "Error executing"

\* C26: processToolCalls handles the calls in list order and returns one
\* response per call in that order; when a call's handling throws, its
\* response is the error line and the later calls are still handled.
C26_OneResponsePerCall ==
    /\ \A throwing \in SUBSET ToolTypes :
          LET R == ProcessToolCalls("task", toolCalls, throwing)
          IN /\ Len(R.responses) = Len(toolCalls)
             /\ Len(R.emitted) = Len(toolCalls)
             /\ \A i \in 1..Len(toolCalls) :
                   /\ R.emitted[i].event = toolCalls[i].type
                   /\ ErrorLine(R.responses[i]) <=> toolCalls[i].type \in throwing
                   /\ ErrorLine(R.responses[i]) => R.responses[i].type = toolCalls[i].type
                   /\ ~ErrorLine(R.responses[i]) =>
                         IF toolCalls[i].type = "new_task"
                         THEN R.responses[i] =
                                [line |-> "Task delegation request sent",
                                 mode |-> toolCalls[i].parameters.mode,
                                 instruction |-> toolCalls[i].parameters.instruction]
                         ELSE R.responses[i] =
                                [line |-> "Task completed successfully",
                                 result |-> toolCalls[i].parameters.result]
    /\ "processToolCalls" \in called =>
          \E throwing \in SUBSET ToolTypes :
              responses = ProcessToolCalls("task", toolCalls, throwing).responses

\* the first of three calls threw and the other two were answered
C26_Witness ==
    /\ "processToolCalls" \in called
    /\ Len(toolCalls) = 3
    /\ Len(responses) = 3
    /\ ErrorLine(responses[1])
    /\ ~ErrorLine(responses[2])
    /\ ~ErrorLine(responses[3])

\* C27: after updateProgress(id, partial) the record of id exists, every
\* field given has the given value (a progress of 0 and a status included),
\* every field not given keeps its value, and no other record is changed.
C27_UpdateProgressIsUpsert ==
    \A agentId \in 1..MaxAgents, entry \in Partials :
        LET after == UpdateProgress(State, agentId, entry).progress
        IN /\ agentId \in DOMAIN after
           /\ \A f \in DOMAIN entry : after[agentId][f] = entry[f]
           /\ agentId \in DOMAIN progress =>
                 \A f \in DOMAIN progress[agentId] \ DOMAIN entry :
                     after[agentId][f] = progress[agentId][f]
           /\ \A a \in DOMAIN progress \ {agentId} :
                 a \in DOMAIN after /\ after[a] = progress[a]
           /\ DOMAIN after = DOMAIN progress \cup {agentId}

\* C28: isAllCompleted is false without records, false while a record has a
\* status other than completed or failed, and true when there is a record
\* and every record is completed or failed.
C28_AllCompletedNeedsRecords ==
    /\ DOMAIN progress = {} => ~IsAllCompleted(State)
    /\ (\E a \in DOMAIN progress : progress[a].status \notin Terminal)
          => ~IsAllCompleted(State)
    /\ (DOMAIN progress # {} /\ \A a \in DOMAIN progress : progress[a].status \in Terminal)
          => IsAllCompleted(State)

\* every agent has a record, all are completed or failed and one is failed
C28_Witness ==
    /\ DOMAIN progress = 1..MaxAgents
    /\ IsAllCompleted(State)
    /\ \E a \in DOMAIN progress : progress[a].status = "failed"
    /\ \E a \in DOMAIN progress : progress[a].status = "completed"

\* the sum of the progress values, agent by agent
RECURSIVE SumUpTo(_)
SumUpTo(n) ==
    IF n = 0 THEN 0
    ELSE (IF n \in DOMAIN progress THEN progress[n].progress ELSE 0) + SumUpTo(n - 1)

\* C29: getOverallProgress is the arithmetic mean of the progress values of
\* all records, 50 for 100, 50 and 0, and 0 without records; it is in 0..100.
C29_OverallProgressIsMean ==
    LET overall == GetOverallProgress(State)
        n == Cardinality(DOMAIN progress)
    IN /\ overall.denominator > 0
       /\ n = 0 => overall.numerator = 0
       /\ n > 0 => overall.numerator * n = SumUpTo(MaxAgents) * overall.denominator
       /\ 0 <= overall.numerator
       /\ overall.numerator <= 100 * overall.denominator
       /\ (/\ DOMAIN progress = 1..3
           /\ progress[1].progress = 100
           /\ progress[2].progress = 50
           /\ progress[3].progress = 0)
             => overall.numerator = 50 * overall.denominator

\* three records with progress 100, 50 and 0
C29_Witness ==
    /\ DOMAIN progress = 1..MaxAgents
    /\ progress[1].progress = 100
    /\ progress[2].progress = 50
    /\ progress[3].progress = 0

\* C30: when the worker of a child that was completed through completeTask,
\* which terminated it, exits afterwards, the parent is not resumed again and
\* nothing more is written to the input of the parent's worker.
C30_ExitAfterCompleteTaskIsSilent ==
    [][\A c \in DOMAIN tasks, code \in ExitCodes :
          (/\ HasParent(c)
           /\ tasks[c].status = "completed"
           /\ tasks[c].result \in Results
           /\ proc[c] = "killed"
           /\ ExitStep(c, code)) =>
              LET p == tasks[c].parentId IN
              /\ stdin'[p] = stdin[p]
              /\ tasks'[p] = tasks[p]]_vars

\* C31: when every worker exits, in whatever order, every task ends up
\* completed or failed for good, and a pending waitForCompletion resolves.
C31_SessionTerminates ==
    /\ <>[](\A t \in DOMAIN tasks : tasks[t].status \in Terminal)
    /\ (completionWait = "pending") ~> (completionWait = "resolved")

\* C32: validation and registration are one step for the other callbacks.
\* However createSubtask calls interleave at their awaits, a suspended call
\* has its task in the task map and in its parent's children list already,
\* so the next request is validated against it and no limit is exceeded:
\* not the total, not the children of one parent, not the siblings of one
\* mode.
C32_AdmissionIsAtomic ==
    /\ \A c \in suspended :
        /\ c.id \in DOMAIN tasks
        /\ c.id \in Children(tasks[c.id].parentId)
    /\ Cardinality(DOMAIN tasks) <= taskLimits.maxTotalTasks
    /\ \A t \in DOMAIN tasks :
        /\ Len(tasks[t].children) <= taskLimits.maxChildren
        /\ \A m \in SiblingModes :
            RecentSiblings(State, t, m) <= MAX_SAME_MODE_SIBLINGS

\* two branches under the root; a request of one is suspended with the last
\* slot taken, and a later request was refused on the total
C32_Witness ==
    /\ \E c \in suspended : tasks[c.id].depth = 2
    /\ Cardinality({t \in DOMAIN tasks : tasks[t].depth = 1}) = 2
    /\ Cardinality(DOMAIN tasks) = taskLimits.maxTotalTasks
    /\ totalTaskCount = taskLimits.maxTotalTasks + 1

\* C33: a createRootTask or createSubtask call that fails because the
\* TaskStack is full registers nothing, so no task is in the task map in
\* status pending without a stack entry and without a worker.
C33_FullStackRegistersNothing ==
    \A t \in DOMAIN tasks :
        tasks[t].status = "pending" => OnStack(t) \/ t \in gooseProcesses

\* ids of the nodes of a list of hierarchies, parents before children
RECURSIVE ForestIds(_)
ForestIds(forest) ==
    IF Len(forest) = 0 THEN <<>>
    ELSE <<Head(forest).id>> \o ForestIds(Head(forest).children)
            \o ForestIds(Tail(forest))

\* C34: parent and child records agree in every reachable state: a task
\* with a parentId is exactly once in the children list of that parent, an
\* id in a children list names a registered task whose parentId is that
\* parent, and every task of the task map is exactly once in the result of
\* getTaskHierarchy.
C34_ParentAndChildAgree ==
    /\ \A t \in DOMAIN tasks : HasParent(t) =>
        /\ tasks[t].parentId \in DOMAIN tasks
        /\ Cardinality({i \in 1..Len(tasks[tasks[t].parentId].children) :
                tasks[tasks[t].parentId].children[i] = t}) = 1
    /\ \A p \in DOMAIN tasks : \A c \in Children(p) :
        /\ c \in DOMAIN tasks
        /\ tasks[c].parentId = p
    /\ LET ids == ForestIds(GetTaskHierarchy(State)) IN
        \A t \in DOMAIN tasks :
            Cardinality({i \in 1..Len(ids) : ids[i] = t}) = 1

\* C35: pauseTask only marks bookkeeping: the worker bindings and the
\* workers are as before and no task but the paused one is changed; and
\* while a task stays paused the worker bound to it stays bound, so the
\* binding ends only when the worker exits or the task is completed or
\* stopped, which all end the pause.
C35_PauseKeepsWorker ==
    /\ [](\A taskId \in CallerIds :
            LET after == PauseTask(State, taskId) IN
            /\ after.gooseProcesses = gooseProcesses
            /\ after.proc = proc
            /\ DOMAIN after.tasks = DOMAIN tasks
            /\ \A t \in DOMAIN tasks \ {taskId} : after.tasks[t] = tasks[t])
    /\ [][\A t \in DOMAIN tasks :
            /\ tasks[t].status = "paused"
            /\ tasks'[t].status = "paused"
            /\ t \in gooseProcesses
            => t \in gooseProcesses' /\ proc'[t] = proc[t]]_vars

\* pauseTask was called on a running task that has delegated nothing: it is
\* paused and its worker is bound and alive
C35_Witness ==
    \E t \in DOMAIN tasks :
        /\ tasks[t].status = "paused"
        /\ tasks[t].children = <<>>
        /\ t \in gooseProcesses
        /\ proc[t] = "alive"

\* C36: removeTask(id) removes one entry with that id, wherever it is,
\* returns its task and leaves the other entries in their order; for an
\* absent id it returns nothing and changes nothing; and in every reachable
\* state the entries are in the order of their pushes, whatever their
\* parentIds.
C36_RemoveKeepsPushOrder ==
    /\ \A i, j \in 1..Len(taskStack.stack) :
            i < j => taskStack.stack[i].timestamp < taskStack.stack[j].timestamp
    /\ \A taskId \in 1..(TsMaxId + 1) :
        LET before == taskStack.stack
            after == RemoveTask(taskStack, taskId)
        IN /\ after.emitted = <<>>
           /\ ~after.threw
           /\ IF \A i \in 1..Len(before) : before[i].task.id # taskId
              THEN after.stack = before /\ after.returned = <<>>
              ELSE \E i \in 1..Len(before) :
                    /\ before[i].task.id = taskId
                    /\ after.returned = <<before[i].task>>
                    /\ Len(after.stack) = Len(before) - 1
                    /\ \A j \in 1..Len(after.stack) :
                        after.stack[j] = IF j < i THEN before[j] ELSE before[j + 1]

\* removeTask took the second of three pushed entries from between the
\* other two
C36_Witness ==
    /\ taskStack.clock = 3
    /\ Len(taskStack.stack) = 2
    /\ taskStack.stack[1].timestamp = 1
    /\ taskStack.stack[2].timestamp = 3
    /\ taskStack.returned # <<>>
    /\ \A i \in 1..2 : taskStack.stack[i].task.id # taskStack.returned[1].id

\* C37: updateTask(id, partial) returns false, changes nothing and emits
\* nothing when no entry has the id; otherwise it applies the fields,
\* returns true, and emits a lifecycle event only if the status of the task
\* changes: task_paused for paused, task_resumed for running,
\* task_completed for completed, task_failed for failed.
C37_EventOnlyOnStatusChange ==
    \A taskId \in 1..(TsMaxId + 1), updates \in TsUpdates :
        LET before == taskStack.stack
            index == FindIndex(taskStack, taskId)
            after == UpdateTask(taskStack, taskId, updates)
        IN IF index = 0
           THEN /\ after.updated = <<FALSE>>
                /\ after.stack = before
                /\ after.emitted = <<>>
           ELSE /\ after.updated = <<TRUE>>
                /\ after.stack[index].task = Merge(before[index].task, updates)
                /\ \A i \in 1..Len(before) : i # index => after.stack[i] = before[i]
                /\ after.emitted # <<>> =>
                    /\ after.stack[index].task.status # before[index].task.status
                    /\ after.emitted =
                        <<[type |-> GetEventTypeFromStatus(
                                        after.stack[index].task.status),
                           taskId |-> taskId,
                           parentId |-> before[index].task.parentId]>>

\* the well-formed directives of the texts, by the tool they name
WellFormedNewTask ==
    { <<"new_task", "{", "mode: coder", ",", "instruction: fix", "}">>,
      <<"NEW_TASK", "{", "mode: coder", ",", "instruction: fix", "}">>,
      <<"<new_task>", "<mode>coder</mode>", "<instruction>fix</instruction>",
        "</new_task>">> }

WellFormedCompletion ==
    { <<"attempt_completion", "{", "result: ok", "}">>,
      <<"<attempt_completion>", "<result>ok</result>", "</attempt_completion>">> }

OccursAt(f, text, i) ==
    /\ i + Len(f) - 1 <= Len(text)
    /\ SubSeq(text, i, i + Len(f) - 1) = f

\* position i lies in a block that was opened and not closed before it
Enclosed(text, i) ==
    \E k \in 1..(i - 1) : text[k] = "{" /\ \A j \in (k + 1)..(i - 1) : text[j] # "}"

C39_PreCheckNeverHides ==
    /\ {"parseOutput", "hasOrchestrationTools"} \subseteq called
    /\ toolCalls # <<>>
    => detected

\* C40: after any sequence of accepted and rejected task creations
\* getSessionStats reports the live counters: totalTasks is the number of
\* tasks in the task map, tasksRemaining is maxTotalTasks minus that number
\* and is never negative.
C40_SessionStatsAreLive ==
    LET stats == GetSessionStats(State) IN
    /\ stats.totalTasks = Cardinality(DOMAIN tasks)
    /\ stats.limitsStatus.tasksRemaining =
            taskLimits.maxTotalTasks - Cardinality(DOMAIN tasks)
    /\ stats.limitsStatus.tasksRemaining >= 0

====
